---- MODULE Spec2Model ----
(***************************************************************************)
(* ts-dedup: time-bounded duplicate suppression.                           *)
(*                                                                         *)
(* The module models                                                       *)
(*   - the canonical hasher            (src/src/lib/hasher/index.ts),       *)
(*   - the in-process TTL cache        (src/src/lib/cache/memory.ts),       *)
(*   - the networked TTL cache         (src/src/lib/cache/redis.ts),        *)
(*   - the Deduplicator orchestrator   (src/unnamed/part_003).              *)
(*                                                                         *)
(* Strings that are used as cache keys are sequences of tokens; the colon  *)
(* is always a token of its own, every other token is colon-free.          *)
(* Time is counted in ticks, TicksPerSecond ticks to the second.           *)
(***************************************************************************)
EXTENDS Integers, Sequences, FiniteSets, Bags, TLC

VARIABLES
    now,          \* Date.now() / the server clock, in ticks
    backend,      \* which Cache the Deduplicator was constructed with
    cfgTtl,       \* Deduplicator.options.ttl, in ticks
    cache,        \* MemoryCache.cache : Map<namespacedKey, {expires, timeout}>
    timers,       \* pending setTimeout callbacks of the MemoryCache (a bag)
    isConnected,  \* RedisCache.isConnected
    redisStore,   \* keyspace of the Redis server: wire key -> expiry instant
    customStore,  \* keys held by an injected Cache implementation
    proc,         \* one record per caller: the async call it is in
    latest,       \* history: per key, the entry written by the most recent set
    seen,         \* history: per dedup key, the last insert made by isDuplicate
    overlaps,     \* history: calls begun while another call was in flight
    quits,        \* history: QUIT commands sent and acknowledged on this connection
    call          \* a call of a synchronous function: its arguments and its outcome

vars == <<now, backend, cfgTtl, cache, timers, isConnected, redisStore,
          customStore, proc, latest, seen, overlaps, quits, call>>

-----------------------------------------------------------------------------
(* Bounds of the model *)

MaxTime == 2
MaxTimers == 3
MaxOverlaps == 1
TicksPerSecond == 2
MaxQuits == 2

Procs == {1, 2}

-----------------------------------------------------------------------------
(* JavaScript values.  A string is a sequence of tokens. *)

Undef == [t |-> "undefined"]
Null == [t |-> "null"]
Bool(b) == [t |-> "bool", v |-> b]
Num(n) == [t |-> "num", v |-> n]
\* the number NaN
NaN == [t |-> "nan"]
Str(s) == [t |-> "str", v |-> s]
DateV(d) == [t |-> "date", v |-> d]
Buf(bytes) == [t |-> "buffer", v |-> bytes]
Arr(items) == [t |-> "arr", v |-> items]
\* a plain object: its own enumerable properties <<name, value>> in insertion order
Obj(pairs) == [t |-> "obj", v |-> pairs, sb |-> "none"]
\* an object whose prototype has serializeBinary: sb = "ok" yields bytes, "throws" raises
Pb(pairs, sb, bytes) == [t |-> "obj", v |-> pairs, sb |-> sb, bytes |-> bytes]

\* typeof x === 'object' && x !== null
IsObjectType(x) == x.t \in {"obj", "arr", "date", "buffer"}

\* the truthiness test of `if (x)` / `!x`
Truthy(x) ==
    CASE x.t \in {"undefined", "null", "nan"} -> FALSE
      [] x.t = "bool" -> x.v
      [] x.t = "num" -> x.v # 0
      [] x.t = "str" -> x.v # <<>>
      [] OTHER -> TRUE

\* Object.keys(x), before sorting
OwnKeys(x) ==
    CASE x.t = "obj" -> [i \in 1..Len(x.v) |-> x.v[i][1]]
      [] x.t = "buffer" -> [i \in 1..Len(x.v) |-> ToString(i - 1)]
      [] OTHER -> <<>>

\* x[name]
Get(x, name) ==
    CASE x.t = "obj" ->
           IF \E i \in 1..Len(x.v) : x.v[i][1] = name
           THEN LET i == CHOOSE j \in 1..Len(x.v) : x.v[j][1] = name IN x.v[i][2]
           ELSE Undef
      [] x.t = "buffer" ->
           IF \E i \in 1..Len(x.v) : ToString(i - 1) = name
           THEN LET i == CHOOSE j \in 1..Len(x.v) : ToString(j - 1) = name IN Num(x.v[i])
           ELSE Undef
      [] OTHER -> Undef

\* 'name' in x
HasProp(x, name) == x.t = "obj" /\ \E i \in 1..Len(x.v) : x.v[i][1] = name

\* the property names of the model in UTF-16 code unit order (Array.prototype.sort)
CodeUnitOrder == <<"0", "1", "a", "b", "deduplicationKey", "format", "id", "payload">>
Rank(name) == CHOOSE i \in 1..Len(CodeUnitOrder) : CodeUnitOrder[i] = name

RECURSIVE SortNames(_)
SortNames(S) ==
    IF S = {} THEN <<>>
    ELSE LET m == CHOOSE x \in S : \A y \in S : Rank(x) <= Rank(y)
         IN <<m>> \o SortNames(S \ {m})

SeqToSet(s) == {s[i] : i \in 1..Len(s)}

-----------------------------------------------------------------------------
(* Canonical hasher: src/src/lib/hasher/index.ts *)

Ok(v) == [ok |-> TRUE, v |-> v]
Throw(e) == [ok |-> FALSE, err |-> e]

\* Date.prototype.toISOString: a rendering of the instant, one token
toISOString(d) == <<"T" \o ToString(d) \o "Z">>

RECURSIVE normalizeObject(_)
RECURSIVE normalizeFields(_, _)
normalizeFields(obj, sortedKeys) ==
    IF sortedKeys = <<>> THEN <<>>
    ELSE LET key == Head(sortedKeys)
             value == Get(obj, key)
             rest == normalizeFields(obj, Tail(sortedKeys))
         IN IF value.t = "date"
            THEN <<<<key, Str(toISOString(value.v))>>>> \o rest
            ELSE IF Truthy(value) /\ IsObjectType(value) /\ value.t # "buffer"
            THEN <<<<key, normalizeObject(value)>>>> \o rest
            ELSE IF value # Undef
            THEN <<<<key, value>>>> \o rest
            ELSE rest

\* a normalizeObject that keeps the fields in insertion order
normalizeObject_Unsorted(obj) ==
    IF ~IsObjectType(obj) THEN obj
    ELSE IF obj.t = "arr"
    THEN Arr([i \in 1..Len(obj.v) |-> normalizeObject(obj.v[i])])
    ELSE Obj(normalizeFields(obj, OwnKeys(obj)))

normalizeObject(obj) ==
    IF ~IsObjectType(obj) THEN obj
    ELSE IF obj.t = "arr"
    THEN Arr([i \in 1..Len(obj.v) |-> normalizeObject(obj.v[i])])
    ELSE Obj(normalizeFields(obj, SortNames(SeqToSet(OwnKeys(obj)))))

RECURSIVE Join(_, _)
Join(parts, sep) ==
    IF parts = <<>> THEN <<>>
    ELSE IF Len(parts) = 1 THEN parts[1]
    ELSE parts[1] \o sep \o Join(Tail(parts), sep)

Quote(s) == <<"\"">> \o s \o <<"\"">>

\* JSON.stringify of a value other than undefined, as text
RECURSIVE stringify(_)
stringify(x) ==
    CASE x.t = "null" -> <<"null">>
      [] x.t = "undefined" -> <<"null">>
      [] x.t = "bool" -> IF x.v THEN <<"true">> ELSE <<"false">>
      [] x.t = "num" -> <<ToString(x.v)>>
      [] x.t = "nan" -> <<"null">>
      [] x.t = "str" -> Quote(x.v)
      [] x.t = "date" -> Quote(toISOString(x.v))
      [] x.t = "buffer" ->
           <<"{", "\"", "type", "\"", ":", "\"", "Buffer", "\"", ",",
             "\"", "data", "\"", ":", "[">>
           \o Join([i \in 1..Len(x.v) |-> <<ToString(x.v[i])>>], <<",">>)
           \o <<"]", "}">>
      [] x.t = "arr" ->
           <<"[">> \o Join([i \in 1..Len(x.v) |-> stringify(x.v[i])], <<",">>) \o <<"]">>
      [] x.t = "obj" ->
           LET kept == SelectSeq(x.v, LAMBDA pr : pr[2] # Undef)
           IN <<"{">>
              \o Join([i \in 1..Len(kept) |->
                         Quote(<<kept[i][1]>>) \o <<":">> \o stringify(kept[i][2])],
                      <<",">>)
              \o <<"}">>

\* createHash('sha256').update(data).digest('hex'): one colon-free token per input,
\* different inputs giving different tokens (no collisions)
sha256(data) == <<"sha256" \o ToString(data)>>

\* a hashJson that digests an absent value like any other
hashJson_Sentinel(obj) ==
    IF ~IsObjectType(obj) THEN Ok(sha256(stringify(obj)))
    ELSE Ok(sha256(stringify(normalizeObject(obj))))

hashJson(obj) ==
    IF obj = Undef THEN Throw("Cannot hash undefined value")
    ELSE IF ~IsObjectType(obj) THEN Ok(sha256(stringify(obj)))
    ELSE Ok(sha256(stringify(normalizeObject(obj))))

hashProtobuf(message) ==
    IF ~Truthy(message)
    THEN Throw("Cannot hash null or undefined Protobuf message")
    ELSE IF ~(message.t = "obj" /\ message.sb # "none")
    THEN Throw("Invalid Protobuf message: missing serializeBinary method")
    ELSE IF message.sb = "throws"
    THEN Throw("Failed to serialize Protobuf message")
    ELSE Ok(sha256(message.bytes))

\* format is the value of the `format` argument; undefined takes the default 'json'
hashMessage(message, format) ==
    LET fmt == IF format = Undef THEN Str(<<"json">>) ELSE format
        r == IF fmt = Str(<<"json">>) THEN hashJson(message)
             ELSE IF fmt = Str(<<"protobuf">>) THEN hashProtobuf(message)
             ELSE Throw("Unsupported message format")
    IN IF r.ok THEN r ELSE Throw("Failed to hash message: " \o r.err)

-----------------------------------------------------------------------------
(* Shared configuration: src/src/lib/cache/base.ts *)

DefaultNamespace == <<"ts-dedup">>

\* BaseCache.getNamespacedKey
getNamespacedKey(namespace, key) == namespace \o <<":">> \o key

-----------------------------------------------------------------------------
(* In-process TTL cache: src/src/lib/cache/memory.ts                       *)
(* M is the pair [cache, timers].  A pending timer is [key, fireAt]: the   *)
(* key its callback deletes and the instant it is due.  Two pending timers *)
(* with the same key and instant behave alike, whichever of them a handle  *)
(* names, so timers is the bag of pending timers and the handle kept in an *)
(* entry is the timer it names.                                            *)

NoEntries == [k \in {} |-> 0]

Without(f, k) == [x \in (DOMAIN f) \ {k} |-> f[x]]

\* setTimeout(callback, delay) at instant t, for the callback that deletes key
setTimeout(tm, key, delay, t) ==
    LET timer == [key |-> key, fireAt |-> t + (IF delay > 0 THEN delay ELSE 0)]
    IN [timeout |-> timer, timers |-> tm (+) SetToBag({timer})]

\* clearTimeout(handle): a handle whose timer is no longer pending does nothing
clearTimeout(tm, timeout) ==
    IF BagIn(timeout, tm) THEN tm (-) SetToBag({timeout}) ELSE tm

\* a delete that removes the entry and leaves its timer pending
MemoryCache_delete_KeepTimer(M, key) ==
    LET namespacedKey == getNamespacedKey(DefaultNamespace, key)
    IN IF namespacedKey \in DOMAIN M.cache
       THEN [cache |-> Without(M.cache, namespacedKey), timers |-> M.timers]
       ELSE M

\* MemoryCache.delete
MemoryCache_delete(M, key) ==
    LET namespacedKey == getNamespacedKey(DefaultNamespace, key)
    IN IF namespacedKey \in DOMAIN M.cache
       THEN [cache |-> Without(M.cache, namespacedKey),
             timers |-> clearTimeout(M.timers, M.cache[namespacedKey].timeout)]
       ELSE M

\* MemoryCache.has without the check of the deadline
MemoryCache_has_NoExpiry(M, key, t) ==
    LET namespacedKey == getNamespacedKey(DefaultNamespace, key)
    IN [ret |-> namespacedKey \in DOMAIN M.cache, M |-> M]

\* MemoryCache.has at instant t: the value returned and the store it leaves
\* a has that reports a key another call is about to insert as present
MemoryCache_has_Locked(M, key, t) ==
    LET namespacedKey == getNamespacedKey(DefaultNamespace, key)
    IN IF \E q \in DOMAIN proc : proc[q].pc = "set_wait" /\ proc[q].key = key
       THEN [ret |-> TRUE, M |-> M]
       ELSE IF namespacedKey \notin DOMAIN M.cache
       THEN [ret |-> FALSE, M |-> M]
       ELSE IF M.cache[namespacedKey].expires < t
       THEN [ret |-> FALSE, M |-> MemoryCache_delete(M, key)]
       ELSE [ret |-> TRUE, M |-> M]

\* a has that reports an expired entry absent and leaves it in the store
MemoryCache_has_NoEvict(M, key, t) ==
    LET namespacedKey == getNamespacedKey(DefaultNamespace, key)
    IN IF namespacedKey \notin DOMAIN M.cache
       THEN [ret |-> FALSE, M |-> M]
       ELSE [ret |-> ~(M.cache[namespacedKey].expires < t), M |-> M]

MemoryCache_has(M, key, t) ==
    LET namespacedKey == getNamespacedKey(DefaultNamespace, key)
    IN IF namespacedKey \notin DOMAIN M.cache
       THEN [ret |-> FALSE, M |-> M]
       ELSE IF M.cache[namespacedKey].expires < t
       THEN [ret |-> FALSE, M |-> MemoryCache_delete(M, key)]
       ELSE [ret |-> TRUE, M |-> M]

\* a set that leaves the entry it finds, and its timer, in place
MemoryCache_set_begin_NoCancel(M, key, ttl, t) == [expires |-> t + ttl, M |-> M]

\* a set that computes its deadline one tick late
MemoryCache_set_begin_Late(M, key, ttl, t) ==
    [expires |-> t + ttl + 1, M |-> MemoryCache_delete(M, key)]

\* MemoryCache.set up to its await: the deadline is computed, the old entry deleted
MemoryCache_set_begin(M, key, ttl, t) ==
    [expires |-> t + ttl, M |-> MemoryCache_delete(M, key)]

\* a set that stores nothing
MemoryCache_set_finish_Dropped(M, key, ttl, expires, t) == M

\* a set that stores the entry and schedules no eviction
MemoryCache_set_finish_NoTimer(M, key, ttl, expires, t) ==
    LET namespacedKey == getNamespacedKey(DefaultNamespace, key)
    IN [cache |-> [x \in (DOMAIN M.cache) \cup {namespacedKey} |->
                     IF x = namespacedKey
                     THEN [expires |-> expires,
                           timeout |-> [key |-> namespacedKey, fireAt |-> expires]]
                     ELSE M.cache[x]],
        timers |-> M.timers]

\* MemoryCache.set after its await: the eviction is scheduled, the entry stored
MemoryCache_set_finish(M, key, ttl, expires, t) ==
    LET namespacedKey == getNamespacedKey(DefaultNamespace, key)
        st == setTimeout(M.timers, namespacedKey, ttl, t)
    IN [cache |-> [x \in (DOMAIN M.cache) \cup {namespacedKey} |->
                     IF x = namespacedKey
                     THEN [expires |-> expires, timeout |-> st.timeout]
                     ELSE M.cache[x]],
        timers |-> st.timers]

RECURSIVE ClearAll(_, _)
ClearAll(tm, handles) ==
    IF handles = <<>> THEN tm
    ELSE ClearAll(clearTimeout(tm, Head(handles)), Tail(handles))

RECURSIVE SetToSeq(_)
SetToSeq(S) ==
    IF S = {} THEN <<>>
    ELSE LET x == CHOOSE y \in S : TRUE IN <<x>> \o SetToSeq(S \ {x})

\* MemoryCache.clear
MemoryCache_clear(M) ==
    [cache |-> NoEntries,
     timers |-> ClearAll(M.timers,
                         [i \in 1..Len(SetToSeq(DOMAIN M.cache)) |->
                            M.cache[SetToSeq(DOMAIN M.cache)[i]].timeout])]

\* the callback given to setTimeout in set: this.cache.delete(namespacedKey)
\* a callback that also removes every other entry whose deadline is not after
\* the instant the timer was due
EvictionCallback_Sweep(M, timer) ==
    [cache |-> [x \in {y \in DOMAIN M.cache :
                         y # timer.key /\ M.cache[y].expires > timer.fireAt} |->
                   M.cache[x]],
     timers |-> M.timers (-) SetToBag({timer})]

EvictionCallback(M, timer) ==
    [cache |-> Without(M.cache, timer.key),
     timers |-> M.timers (-) SetToBag({timer})]

Mem == [cache |-> cache, timers |-> timers]

-----------------------------------------------------------------------------
(* Networked TTL cache: src/src/lib/cache/redis.ts                         *)
(* The server keyspace S maps a wire key to the instant its entry expires. *)

\* RedisCache.prefix for a cache created without a prefix option
DefaultPrefix ==
    IF DefaultNamespace # <<>> /\ DefaultNamespace[Len(DefaultNamespace)] = ":"
    THEN DefaultNamespace
    ELSE DefaultNamespace \o <<":">>

\* String.prototype.replace(/::+/g, ':')
RECURSIVE CollapseColons(_)
CollapseColons(s) ==
    IF Len(s) < 2 THEN s
    ELSE IF s[1] = ":" /\ s[2] = ":" THEN CollapseColons(Tail(s))
    ELSE <<s[1]>> \o CollapseColons(Tail(s))

\* RedisCache.getKey
getKey(key) ==
    IF key = <<>> THEN Throw("Cache key cannot be empty")
    ELSE Ok(CollapseColons(DefaultPrefix \o key))

\* Math.floor(ttl) without the minimum of one second
ttlSeconds_NoMinimum(ttl) == ttl \div TicksPerSecond

\* Math.max(1, Math.floor(ttl)), ttl given in ticks, the result in seconds
ttlSeconds(ttl) ==
    LET floor == ttl \div TicksPerSecond
    IN IF floor > 1 THEN floor ELSE 1

\* EXISTS, SET key '1' EX seconds, DEL, and DEL of every key under the prefix,
\* as the server executes them at instant t
Server_exists(S, wireKey, t) == wireKey \in DOMAIN S /\ t < S[wireKey]
Server_set(S, wireKey, seconds, t) ==
    [x \in (DOMAIN S) \cup {wireKey} |->
        IF x = wireKey THEN t + seconds * TicksPerSecond ELSE S[x]]
Server_del(S, wireKey) == Without(S, wireKey)

IsPrefixOf(pre, s) == Len(pre) <= Len(s) /\ SubSeq(s, 1, Len(pre)) = pre

\* a has that sends EXISTS whatever the connection status
RedisCache_has_begin_Connected(connected, key) ==
    IF ~getKey(key).ok THEN [io |-> FALSE, ret |-> FALSE]
    ELSE [io |-> TRUE, ret |-> FALSE]

\* what RedisCache.has does before it awaits: "false" at once when the connection
\* is known to be down or the key is empty, otherwise the EXISTS it sends
RedisCache_has_begin(connected, key) ==
    IF ~connected THEN [io |-> FALSE, ret |-> FALSE]
    ELSE IF ~getKey(key).ok THEN [io |-> FALSE, ret |-> FALSE]
    ELSE [io |-> TRUE, ret |-> FALSE]

\* a has that takes a rejected EXISTS for a key that is present
RedisCache_has_finish_FailClosed(S, key, replied, t) ==
    IF replied THEN Server_exists(S, getKey(key).v, t) ELSE TRUE

\* RedisCache.has once the reply is in: replied = FALSE is a rejected command
RedisCache_has_finish(S, key, replied, t) ==
    IF replied THEN Server_exists(S, getKey(key).v, t) ELSE FALSE

\* a set that looks at the connection status before it validates its arguments
RedisCache_set_begin_ConnectionFirst(connected, key, ttl) ==
    IF ~connected THEN [io |-> FALSE, out |-> "return"]
    ELSE IF key = <<>> THEN [io |-> FALSE, out |-> "throw"]
    ELSE IF ttl <= 0 THEN [io |-> FALSE, out |-> "throw"]
    ELSE [io |-> TRUE, out |-> "await"]

\* what RedisCache.set does before it awaits: it throws on a bad argument,
\* returns at once when the connection is known to be down, otherwise sends SET
RedisCache_set_begin(connected, key, ttl) ==
    IF key = <<>> THEN [io |-> FALSE, out |-> "throw"]
    ELSE IF ttl <= 0 THEN [io |-> FALSE, out |-> "throw"]
    ELSE IF ~connected THEN [io |-> FALSE, out |-> "return"]
    ELSE [io |-> TRUE, out |-> "await"]

\* RedisCache.set once the reply is in
RedisCache_set_finish(S, key, ttl, replied, t) ==
    IF replied
    THEN [out |-> "return", S |-> Server_set(S, getKey(key).v, ttlSeconds(ttl), t)]
    ELSE [out |-> "throw", S |-> S]

\* RedisCache.delete before it awaits
RedisCache_delete_begin(connected, key) ==
    IF key = <<>> THEN [io |-> FALSE, out |-> "return"]
    ELSE IF ~connected THEN [io |-> FALSE, out |-> "return"]
    ELSE [io |-> TRUE, out |-> "await"]

\* a delete that lets the error of a rejected DEL through
RedisCache_delete_finish_Rethrow(S, key, replied) ==
    IF replied
    THEN [out |-> "return", S |-> Server_del(S, getKey(key).v)]
    ELSE [out |-> "throw", S |-> S]

\* RedisCache.delete once the reply is in: a rejected DEL is logged and swallowed
RedisCache_delete_finish(S, key, replied) ==
    IF replied
    THEN [out |-> "return", S |-> Server_del(S, getKey(key).v)]
    ELSE [out |-> "return", S |-> S]

\* a disconnect that sends QUIT whatever the connection status
RedisCache_disconnect_begin_AlwaysQuit(connected) == [io |-> TRUE, ret |-> "true"]

\* RedisCache.disconnect before it awaits: true at once when the connection is
\* known to be down, otherwise the QUIT it sends
RedisCache_disconnect_begin(connected) ==
    IF ~connected THEN [io |-> FALSE, ret |-> "true"]
    ELSE [io |-> TRUE, ret |-> "true"]

\* RedisCache.disconnect once the reply is in: an acknowledged QUIT clears
\* isConnected; a rejected one is logged and leaves it as it is
RedisCache_disconnect_finish(connected, replied) ==
    IF replied THEN [ret |-> "true", connected |-> FALSE]
    ELSE [ret |-> "false", connected |-> connected]

\* RedisCache.clear before it awaits
RedisCache_clear_begin(connected) ==
    IF ~connected THEN [io |-> FALSE, out |-> "return"]
    ELSE [io |-> TRUE, out |-> "await"]

\* RedisCache.clear once clearWithCount settles: the scan matches prefix*, the
\* pipeline deletes what it matched; a rejection is logged and swallowed
RedisCache_clear_finish(S, replied) ==
    IF replied
    THEN [out |-> "return",
          S |-> [x \in {y \in DOMAIN S : ~IsPrefixOf(DefaultPrefix, y)} |-> S[x]]]
    ELSE [out |-> "return", S |-> S]

-----------------------------------------------------------------------------
(* Deduplicator: src/unnamed/part_003 *)

\* a normalizeMessage that wraps every value
normalizeMessage_AlwaysWrap(message) ==
    Obj(<<<<"payload", message>>, <<"format", Str(<<"json">>)>>>>)

\* Deduplicator.normalizeMessage
normalizeMessage(message) ==
    IF Truthy(message) /\ IsObjectType(message) /\ HasProp(message, "payload")
    THEN message
    ELSE Obj(<<<<"payload", message>>, <<"format", Str(<<"json">>)>>>>)

\* Deduplicator.getCacheKey
getCacheKey(namespace, message) ==
    IF Truthy(Get(message, "deduplicationKey"))
    THEN Ok(namespace \o <<":">> \o Get(message, "deduplicationKey").v)
    ELSE LET hash == hashMessage(Get(message, "payload"), Get(message, "format"))
         IN IF hash.ok THEN Ok(namespace \o <<":">> \o hash.v) ELSE hash

\* the catch block of isDuplicate with `throw error` in place of `return false`
isDuplicate_catch_Rethrow == "throw"

\* the catch block of isDuplicate: fail open, the message is not a duplicate
isDuplicate_catch == "false"

\* the messages submitted to the Deduplicator
MsgAB == Obj(<<<<"a", Num(1)>>, <<"b", Num(2)>>>>)
MsgBA == Obj(<<<<"b", Num(2)>>, <<"a", Num(1)>>>>)
MsgKey == Obj(<<<<"payload", Num(7)>>, <<"deduplicationKey", Str(<<"k">>)>>>>)
MsgNoPayload == Obj(<<<<"payload", Undef>>>>)
MsgUndefined == Undef
MsgNoCapability ==
    Obj(<<<<"payload", Obj(<<<<"id", Num(1)>>>>)>>, <<"format", Str(<<"protobuf">>)>>>>)

Messages == <<MsgAB, MsgBA, MsgKey, MsgNoPayload, MsgUndefined, MsgNoCapability>>
MsgIds == 1..Len(Messages)

-----------------------------------------------------------------------------
(* Callers.  Every caller is an async function: it is idle, or suspended   *)
(* at an await of the call it made, or done with the value in ret until    *)
(* the value is taken (Return).                                            *)

NoSeen == [ever |-> FALSE, valid |-> FALSE, at |-> 0, failed |-> FALSE]

IdleProc ==
    [pc |-> "idle", op |-> "none", msg |-> 0, key |-> <<>>, ttl |-> 0, expires |-> 0,
     exists |-> FALSE, io |-> FALSE, ret |-> "none", invoked |-> FALSE,
     prior |-> NoSeen, raised |-> FALSE, calls |-> 0, down |-> FALSE,
     failed |-> FALSE]

Idle(p) == proc[p].pc = "idle"

AllIdle == \A p \in Procs : Idle(p)

\* callers are interchangeable: a new call takes the first caller that is idle;
\* a caller takes the value of a finished call before further calls begin
Free(p) ==
    /\ Idle(p)
    /\ \A q \in Procs : q < p => ~Idle(q)
    /\ \A q \in Procs : proc[q].pc # "done"

\* A continuation of the in-process cache, and the continuation of the caller of
\* a finished call, is a microtask: the event loop runs no timer callback, and
\* the clock does not advance a tick, before it has run.
MicrotaskPending ==
    \/ \E p \in Procs : proc[p].pc = "done"
    \/ /\ backend = "memory"
       /\ \E p \in Procs : proc[p].pc \in {"has_wait", "set_wait"}

\* a reply of the Redis server is handled in a turn of the event loop of its
\* own, after the microtasks of the turn before it
NetworkTurn == backend = "redis" => ~MicrotaskPending

\* no synchronous function is under examination
NoCall == [fn |-> "none"]

\* no QUIT was sent since the connection was established
NoQuits == [sent |-> 0, ok |-> 0]

\* a call begins, while another is in flight at most MaxOverlaps times
Overlap ==
    /\ (\E q \in Procs : ~Idle(q)) => overlaps < MaxOverlaps
    /\ overlaps' = IF \E q \in Procs : ~Idle(q) THEN overlaps + 1 ELSE overlaps

\* room for the setTimeout of one more call, and of every call in flight
TimerRoom ==
    BagCardinality(timers) + Cardinality({p \in Procs : proc[p].pc # "idle"})
        < MaxTimers

BoolRet(b) == IF b THEN "true" ELSE "false"

\* history kept for the most recent set of a key.  While the set is suspended,
\* replaced is the deadline of the entry it found and deleted, -1 when it found
\* none; once it has finished, extended tells that this deadline was earlier
\* than the one the set gave the key
NotLive == [live |-> FALSE, deadline |-> 0, replaced |-> -1, extended |-> FALSE]
LatestBegin(key) ==
    IF key \in DOMAIN latest THEN [latest EXCEPT ![key] = NotLive] ELSE latest
LatestOverwrite(key) ==
    LET namespacedKey == getNamespacedKey(DefaultNamespace, key)
    IN IF key \in DOMAIN latest /\ namespacedKey \in DOMAIN cache
       THEN [latest EXCEPT ![key] =
                [NotLive EXCEPT !.replaced = cache[namespacedKey].expires]]
       ELSE LatestBegin(key)
LatestFinish(key, expires) ==
    [x \in (DOMAIN latest) \cup {key} |->
        IF x = key
        THEN [live |-> TRUE, deadline |-> expires, replaced |-> -1,
              extended |-> /\ key \in DOMAIN latest
                           /\ latest[key].replaced >= 0
                           /\ latest[key].replaced < expires]
        ELSE latest[x]]
LatestClear == [x \in DOMAIN latest |-> NotLive]

\* the caller takes the value of a finished call
Return(p) ==
    /\ proc[p].pc = "done"
    /\ proc' = [proc EXCEPT ![p] = IdleProc]
    /\ UNCHANGED <<call, overlaps, quits, now, backend, cfgTtl, cache, timers, isConnected, redisStore,
                   customStore, latest, seen>>

\* time passes
Tick ==
    /\ now < MaxTime
    /\ ~MicrotaskPending
    /\ now' = now + 1
    /\ UNCHANGED <<call, overlaps, quits, backend, cfgTtl, cache, timers, isConnected, redisStore,
                   customStore, proc, latest, seen>>

\* the event loop runs the callback of this timer, which is pending and due
TimerFires(timer) ==
    /\ ~MicrotaskPending
    /\ BagIn(timer, timers)
    /\ timer.fireAt <= now
    /\ LET M == EvictionCallback(Mem, timer)
       IN cache' = M.cache /\ timers' = M.timers
    /\ UNCHANGED <<call, overlaps, quits, now, backend, cfgTtl, isConnected, redisStore, customStore,
                   proc, latest, seen>>

\* the event loop runs a due timer
TimerFire == \E timer \in BagToSet(timers) : TimerFires(timer)

-----------------------------------------------------------------------------
(* Direct use of the in-process cache.  has, delete and clear run to their *)
(* end when they are called; set is suspended once, at `await delete`.     *)

Keys == {<<"a">>, <<"b">>}
MemTTLs == {0, 1, 2}

MemSetCall(p, key, ttl) ==
    /\ Free(p)
    /\ TimerRoom
    /\ LET r == MemoryCache_set_begin(Mem, key, ttl, now)
       IN /\ cache' = r.M.cache
          /\ timers' = r.M.timers
          /\ proc' = [proc EXCEPT ![p] =
                        [IdleProc EXCEPT !.pc = "set_wait", !.op = "set", !.key = key,
                                         !.ttl = ttl, !.expires = r.expires]]
    /\ latest' = LatestOverwrite(key)
    /\ UNCHANGED <<call, overlaps, quits, now, backend, cfgTtl, isConnected, redisStore, customStore, seen>>

MemSetResume(p) ==
    /\ proc[p].pc = "set_wait" /\ proc[p].op = "set"
    /\ LET M == MemoryCache_set_finish(Mem, proc[p].key, proc[p].ttl,
                                       proc[p].expires, now)
       IN cache' = M.cache /\ timers' = M.timers
    /\ proc' = [proc EXCEPT ![p] = IdleProc]
    /\ latest' = LatestFinish(proc[p].key, proc[p].expires)
    /\ UNCHANGED <<call, overlaps, quits, now, backend, cfgTtl, isConnected, redisStore, customStore, seen>>

\* MemoryCache.has; exists records that the key had an entry
MemHasCall(p, key) ==
    /\ Free(p)
    /\ LET r == MemoryCache_has(Mem, key, now)
       IN /\ cache' = r.M.cache /\ timers' = r.M.timers
          /\ proc' = [proc EXCEPT ![p] =
                        [IdleProc EXCEPT !.pc = "done", !.op = "has", !.key = key,
                            !.exists = getNamespacedKey(DefaultNamespace, key) \in DOMAIN cache,
                            !.ret = BoolRet(r.ret)]]
    /\ UNCHANGED <<call, overlaps, quits, now, backend, cfgTtl, isConnected, redisStore, customStore,
                   latest, seen>>

\* MemoryCache.delete; exists records that the key had an entry
MemDeleteCall(p, key) ==
    /\ Free(p)
    /\ LET M == MemoryCache_delete(Mem, key)
       IN cache' = M.cache /\ timers' = M.timers
    /\ proc' = [proc EXCEPT ![p] =
                  [IdleProc EXCEPT !.pc = "done", !.op = "delete", !.key = key,
                      !.exists = getNamespacedKey(DefaultNamespace, key) \in DOMAIN cache,
                      !.ret = "void"]]
    /\ latest' = LatestBegin(key)
    /\ UNCHANGED <<call, overlaps, quits, now, backend, cfgTtl, isConnected, redisStore, customStore,
                   seen>>

\* MemoryCache.clear
MemClearCall(p) ==
    /\ Free(p)
    /\ LET M == MemoryCache_clear(Mem)
       IN cache' = M.cache /\ timers' = M.timers
    /\ proc' = [proc EXCEPT ![p] =
                  [IdleProc EXCEPT !.pc = "done", !.op = "clear", !.ret = "void"]]
    /\ latest' = LatestClear
    /\ UNCHANGED <<call, overlaps, quits, now, backend, cfgTtl, isConnected, redisStore, customStore,
                   seen>>

InitMem ==
    /\ now = 0
    /\ backend = "memory"
    /\ cfgTtl = 0
    /\ cache = NoEntries
    /\ timers = EmptyBag
    /\ isConnected = TRUE
    /\ redisStore = NoEntries
    /\ customStore = {}
    /\ proc = [p \in Procs |-> IdleProc]
    /\ latest = NoEntries
    /\ seen = NoEntries
    /\ overlaps = 0
    /\ quits = NoQuits
    /\ call = NoCall

NextMem ==
    \/ \E p \in Procs, key \in Keys, ttl \in MemTTLs : MemSetCall(p, key, ttl)
    \/ \E p \in Procs : MemSetResume(p)
    \/ \E p \in Procs, key \in Keys : MemHasCall(p, key)
    \/ \E p \in Procs, key \in Keys : MemDeleteCall(p, key)
    \/ \E p \in Procs : MemClearCall(p)
    \/ \E p \in Procs : Return(p)
    \/ TimerFire
    \/ Tick

SpecMem == InitMem /\ [][NextMem]_vars

\* the same operations, each call awaited before the next begins
NextMemSeq ==
    \/ AllIdle /\ \E p \in Procs, key \in Keys, ttl \in MemTTLs : MemSetCall(p, key, ttl)
    \/ \E p \in Procs : MemSetResume(p)
    \/ AllIdle /\ \E p \in Procs, key \in Keys : MemHasCall(p, key)
    \/ AllIdle /\ \E p \in Procs, key \in Keys : MemDeleteCall(p, key)
    \/ AllIdle /\ \E p \in Procs : MemClearCall(p)
    \/ \E p \in Procs : Return(p)
    \/ TimerFire
    \/ Tick

SpecMemSeq == InitMem /\ [][NextMemSeq]_vars

\* the value has(key) returns when it is called in the current state
HasNow(key) == MemoryCache_has(Mem, key, now).ret

-----------------------------------------------------------------------------
(* The Deduplicator over the cache it was constructed with.                *)
(* replied = FALSE is a command the server rejected (networked cache) or a *)
(* call that raised (injected cache).                                      *)

Backends == {"memory", "redis", "custom"}
CfgTTLs == {0, 1}

PriorOf(key) ==
    IF key \in DOMAIN seen
    THEN [ever |-> TRUE, valid |-> seen[key].valid, at |-> seen[key].at,
          failed |-> seen[key].failed]
    ELSE NoSeen

\* history: isDuplicate inserted key at instant t / the key was removed / the
\* processor invoked for the key raised
SeenInsert(key, t) ==
    [x \in (DOMAIN seen) \cup {key} |->
        IF x = key THEN [valid |-> TRUE, at |-> t, failed |-> FALSE] ELSE seen[x]]
SeenRemove(key) ==
    IF key \in DOMAIN seen
    THEN [seen EXCEPT ![key] = [valid |-> FALSE, at |-> 0, failed |-> FALSE]]
    ELSE seen
SeenClear == [x \in DOMAIN seen |-> [valid |-> FALSE, at |-> 0, failed |-> FALSE]]
SeenFailed(key, returned) ==
    IF ~returned /\ key \in DOMAIN seen /\ seen[key].valid
    THEN [seen EXCEPT ![key].failed = TRUE]
    ELSE seen

\* a processIfNotDuplicate that invokes the processor for a duplicate too
AfterDup_AlwaysInvoke(me, dup) ==
    LET settled == [me EXCEPT !.ttl = 0, !.expires = 0, !.exists = FALSE, !.io = FALSE]
    IN IF me.op = "isDuplicate" THEN [settled EXCEPT !.pc = "done", !.ret = dup]
       ELSE IF dup = "throw" THEN [settled EXCEPT !.pc = "done", !.ret = "throw"]
       ELSE [settled EXCEPT !.pc = "proc_wait", !.invoked = TRUE]

\* the caller's record once its isDuplicate has settled with dup: isDuplicate
\* returns it; processIfNotDuplicate skips, or rejects, or invokes the processor
AfterDup(me, dup) ==
    LET settled == [me EXCEPT !.ttl = 0, !.expires = 0, !.exists = FALSE, !.io = FALSE]
    IN IF me.op = "isDuplicate" THEN [settled EXCEPT !.pc = "done", !.ret = dup]
       ELSE IF dup = "true" THEN [settled EXCEPT !.pc = "done", !.ret = "skipped"]
       ELSE IF dup = "throw" THEN [settled EXCEPT !.pc = "done", !.ret = "throw"]
       ELSE [settled EXCEPT !.pc = "proc_wait", !.invoked = TRUE]

\* isDuplicate up to `await this.cache.has(key)`
DedupStart(p, op, i) ==
    /\ Free(p)
    /\ backend = "memory" => TimerRoom
    /\ LET key == getCacheKey(DefaultNamespace, normalizeMessage(Messages[i]))
           me == [IdleProc EXCEPT !.op = op, !.msg = i,
                                  !.down = (backend = "redis" /\ ~isConnected)]
       IN IF ~key.ok
          THEN /\ proc' = [proc EXCEPT ![p] = AfterDup(me, "throw")]
               /\ UNCHANGED <<cache, timers>>
          ELSE LET called == [me EXCEPT !.pc = "has_wait", !.key = key.v,
                                        !.prior = PriorOf(key.v), !.calls = 1]
               IN CASE backend = "memory" ->
                         LET r == MemoryCache_has(Mem, key.v, now)
                         IN /\ cache' = r.M.cache
                            /\ timers' = r.M.timers
                            /\ proc' = [proc EXCEPT ![p] =
                                          [called EXCEPT !.exists = r.ret]]
                    [] backend = "redis" ->
                         /\ proc' = [proc EXCEPT ![p] =
                                       [called EXCEPT !.io =
                                          RedisCache_has_begin(isConnected, key.v).io]]
                         /\ UNCHANGED <<cache, timers>>
                    [] backend = "custom" ->
                         /\ proc' = [proc EXCEPT ![p] = [called EXCEPT !.io = TRUE]]
                         /\ UNCHANGED <<cache, timers>>
    /\ Overlap
    /\ UNCHANGED <<call, quits, now, backend, cfgTtl, isConnected, redisStore, customStore,
                   latest, seen>>

IsDuplicateCall(p, i) == DedupStart(p, "isDuplicate", i)

ProcessCall(p, i) == DedupStart(p, "process", i)

\* isDuplicate from the value of has to `await this.cache.set(key, ttl)`
HasResume(p, replied) ==
    /\ proc[p].pc = "has_wait" /\ proc[p].op \in {"isDuplicate", "process"}
    /\ ~proc[p].io => replied
    /\ NetworkTurn
    /\ LET me == proc[p]
           raised == backend = "custom" /\ ~replied
           exists ==
               CASE backend = "memory" -> me.exists
                 [] backend = "redis" ->
                      IF me.io
                      THEN RedisCache_has_finish(redisStore, me.key, replied, now)
                      ELSE FALSE
                 [] backend = "custom" -> replied /\ me.key \in customStore
           setting == [me EXCEPT !.pc = "set_wait", !.calls = 2, !.io = TRUE,
                                 !.exists = FALSE, !.ttl = cfgTtl]
       IN IF raised
          THEN /\ proc' = [proc EXCEPT ![p] =
                             AfterDup([me EXCEPT !.raised = TRUE], isDuplicate_catch)]
               /\ UNCHANGED <<cache, timers>>
          ELSE IF exists
          THEN /\ proc' = [proc EXCEPT ![p] = AfterDup(me, "true")]
               /\ UNCHANGED <<cache, timers>>
          ELSE CASE backend = "memory" ->
                      LET r == MemoryCache_set_begin(Mem, me.key, cfgTtl, now)
                      IN /\ cache' = r.M.cache
                         /\ timers' = r.M.timers
                         /\ proc' = [proc EXCEPT ![p] =
                                       [setting EXCEPT !.io = FALSE,
                                                       !.expires = r.expires]]
                 [] backend = "redis" ->
                      LET b == RedisCache_set_begin(isConnected, me.key, cfgTtl)
                      IN /\ proc' = [proc EXCEPT ![p] =
                              CASE b.out = "throw" ->
                                     AfterDup([me EXCEPT !.raised = TRUE, !.calls = 2,
                                                         !.io = FALSE],
                                              isDuplicate_catch)
                                [] b.out = "return" ->
                                     AfterDup([me EXCEPT !.calls = 2, !.io = FALSE],
                                              "false")
                                [] OTHER -> setting]
                         /\ UNCHANGED <<cache, timers>>
                 [] backend = "custom" ->
                      /\ proc' = [proc EXCEPT ![p] = setting]
                      /\ UNCHANGED <<cache, timers>>
    /\ UNCHANGED <<call, overlaps, quits, now, backend, cfgTtl, isConnected, redisStore, customStore,
                   latest, seen>>

\* isDuplicate from the settling of set to its return
SetResume(p, replied) ==
    /\ proc[p].pc = "set_wait" /\ proc[p].op \in {"isDuplicate", "process"}
    /\ ~proc[p].io => replied
    /\ NetworkTurn
    /\ LET me == proc[p]
       IN CASE backend = "memory" ->
                 LET M == MemoryCache_set_finish(Mem, me.key, me.ttl, me.expires, now)
                 IN /\ cache' = M.cache
                    /\ timers' = M.timers
                    /\ seen' = SeenInsert(me.key, now)
                    /\ proc' = [proc EXCEPT ![p] = AfterDup(me, "false")]
                    /\ UNCHANGED <<redisStore, customStore>>
            [] backend = "redis" ->
                 LET r == RedisCache_set_finish(redisStore, me.key, me.ttl, replied, now)
                 IN /\ redisStore' = r.S
                    /\ proc' = [proc EXCEPT ![p] =
                                  IF r.out = "throw"
                                  THEN AfterDup([me EXCEPT !.raised = TRUE],
                                                isDuplicate_catch)
                                  ELSE AfterDup(me, "false")]
                    /\ UNCHANGED <<cache, timers, customStore, seen>>
            [] backend = "custom" ->
                 /\ customStore' = IF replied THEN customStore \cup {me.key}
                                   ELSE customStore
                 /\ proc' = [proc EXCEPT ![p] =
                               IF replied THEN AfterDup(me, "false")
                               ELSE AfterDup([me EXCEPT !.raised = TRUE],
                                             isDuplicate_catch)]
                 /\ UNCHANGED <<cache, timers, redisStore, seen>>
    /\ UNCHANGED <<call, overlaps, quits, now, backend, cfgTtl, isConnected, latest>>

\* a processIfNotDuplicate that catches the error of the processor
processIfNotDuplicate_settle_Swallow(returned) == "processed"

\* how processIfNotDuplicate settles after `await processor(payload)`: with the
\* tagged result, or, there being no try around the await, with the error
processIfNotDuplicate_settle(returned) ==
    IF returned THEN "processed" ELSE "throw"

\* a processIfNotDuplicate that takes the key out of the in-process cache again
\* when the processor raised
processIfNotDuplicate_cache_Rollback(M, key, returned) ==
    IF returned THEN M ELSE MemoryCache_delete(M, key)

\* the in-process cache after `await processor(payload)` has settled: nothing
\* between the await and the return touches the cache
processIfNotDuplicate_cache(M, key, returned) == M

\* processIfNotDuplicate from the settling of the processor to its return;
\* failed records that the processor raised
ProcessorResume(p, returned) ==
    /\ proc[p].pc = "proc_wait"
    /\ proc' = [proc EXCEPT ![p].pc = "done",
                            ![p].failed = ~returned,
                            ![p].ret = processIfNotDuplicate_settle(returned)]
    /\ LET M == processIfNotDuplicate_cache(Mem, proc[p].key, returned)
       IN cache' = M.cache /\ timers' = M.timers
    /\ seen' = SeenFailed(proc[p].key, returned)
    /\ UNCHANGED <<call, overlaps, quits, now, backend, cfgTtl, isConnected, redisStore,
                   customStore, latest>>

\* the catch block of removeFromCache: `throw error`
removeFromCache_catch == "throw"

\* a clearCache whose catch block logs the error and returns
clearCache_catch_Swallow == "void"

\* the catch block of clearCache: `throw error`
clearCache_catch == "throw"

\* removeFromCache up to `await this.cache.delete(key)`
RemoveCall(p, i) ==
    /\ Free(p)
    /\ LET key == getCacheKey(DefaultNamespace, normalizeMessage(Messages[i]))
           me == [IdleProc EXCEPT !.op = "remove", !.msg = i]
       IN IF ~key.ok
          THEN /\ proc' = [proc EXCEPT ![p] = [me EXCEPT !.pc = "done", !.ret = "throw"]]
               /\ UNCHANGED <<cache, timers, seen>>
          ELSE LET called == [me EXCEPT !.key = key.v, !.calls = 1]
                   returned == [called EXCEPT !.pc = "done", !.ret = "void"]
                   waiting == [called EXCEPT !.pc = "del_wait", !.io = TRUE]
               IN /\ seen' = SeenRemove(key.v)
                  /\ CASE backend = "memory" ->
                            LET M == MemoryCache_delete(Mem, key.v)
                            IN /\ cache' = M.cache
                               /\ timers' = M.timers
                               /\ proc' = [proc EXCEPT ![p] = returned]
                       [] backend = "redis" ->
                            /\ proc' = [proc EXCEPT ![p] =
                                  IF RedisCache_delete_begin(isConnected, key.v).io
                                  THEN waiting ELSE returned]
                            /\ UNCHANGED <<cache, timers>>
                       [] backend = "custom" ->
                            /\ proc' = [proc EXCEPT ![p] = waiting]
                            /\ UNCHANGED <<cache, timers>>
    /\ Overlap
    /\ UNCHANGED <<call, quits, now, backend, cfgTtl, isConnected, redisStore, customStore, latest>>

\* removeFromCache from the settling of delete to its return
DeleteResume(p, replied) ==
    /\ proc[p].pc = "del_wait"
    /\ NetworkTurn
    /\ LET me == proc[p]
       IN CASE backend = "redis" ->
                 LET r == RedisCache_delete_finish(redisStore, me.key, replied)
                 IN /\ redisStore' = r.S
                    /\ proc' = [proc EXCEPT ![p].pc = "done", ![p].ret = "void"]
                    /\ UNCHANGED customStore
            [] backend = "custom" ->
                 /\ customStore' = IF replied THEN customStore \ {me.key}
                                   ELSE customStore
                 /\ proc' = [proc EXCEPT ![p].pc = "done",
                                         ![p].raised = ~replied,
                                         ![p].ret = IF replied THEN "void"
                                                   ELSE removeFromCache_catch]
                 /\ UNCHANGED redisStore
    /\ UNCHANGED <<call, overlaps, quits, now, backend, cfgTtl, cache, timers, isConnected, latest, seen>>

\* clearCache up to `await this.cache.clear()`; capable is the outcome of
\* `typeof this.cache.clear === 'function'`: the in-process and the networked
\* cache define clear, an injected cache may or may not
ClearCall(p, capable) ==
    /\ Free(p)
    /\ backend # "custom" => capable
    /\ LET me == [IdleProc EXCEPT !.op = "clear"]
           returned == [me EXCEPT !.pc = "done", !.ret = "void"]
       IN CASE backend = "memory" ->
                 LET M == MemoryCache_clear(Mem)
                 IN /\ cache' = M.cache
                    /\ timers' = M.timers
                    /\ proc' = [proc EXCEPT ![p] = [returned EXCEPT !.calls = 1]]
            [] backend = "redis" ->
                 /\ proc' = [proc EXCEPT ![p] =
                       IF RedisCache_clear_begin(isConnected).io
                       THEN [me EXCEPT !.pc = "clear_wait", !.io = TRUE, !.calls = 1]
                       ELSE [returned EXCEPT !.calls = 1]]
                 /\ UNCHANGED <<cache, timers>>
            [] backend = "custom" ->
                 /\ proc' = [proc EXCEPT ![p] =
                       IF capable
                       THEN [me EXCEPT !.pc = "clear_wait", !.io = TRUE, !.calls = 1]
                       ELSE returned]
                 /\ UNCHANGED <<cache, timers>>
    /\ seen' = SeenClear
    /\ Overlap
    /\ UNCHANGED <<call, quits, now, backend, cfgTtl, isConnected, redisStore, customStore, latest>>

\* clearCache from the settling of clear to its return
ClearResume(p, replied) ==
    /\ proc[p].pc = "clear_wait"
    /\ NetworkTurn
    /\ CASE backend = "redis" ->
              /\ redisStore' = RedisCache_clear_finish(redisStore, replied).S
              /\ proc' = [proc EXCEPT ![p].pc = "done", ![p].io = FALSE,
                                      ![p].ret = "void"]
              /\ UNCHANGED customStore
         [] backend = "custom" ->
              /\ customStore' = IF replied THEN {} ELSE customStore
              /\ proc' = [proc EXCEPT ![p].pc = "done", ![p].io = FALSE,
                                      ![p].raised = ~replied,
                                      ![p].ret = IF replied THEN "void"
                                                ELSE clearCache_catch]
              /\ UNCHANGED redisStore
    /\ UNCHANGED <<call, overlaps, quits, now, backend, cfgTtl, cache, timers, isConnected,
                   latest, seen>>

\* the transport emits 'connect': this.isConnected = true
ConnectEvent ==
    /\ backend = "redis"
    /\ ~MicrotaskPending
    /\ ~isConnected
    /\ isConnected' = TRUE
    /\ quits' = NoQuits
    /\ proc' = [p \in Procs |-> [proc[p] EXCEPT !.down = FALSE]]
    /\ UNCHANGED <<call, overlaps, now, backend, cfgTtl, cache, timers, redisStore, customStore,
                   latest, seen>>

\* the transport emits 'end': this.isConnected = false
EndEvent ==
    /\ backend = "redis"
    /\ ~MicrotaskPending
    /\ isConnected
    /\ isConnected' = FALSE
    /\ UNCHANGED <<call, overlaps, quits, now, backend, cfgTtl, cache, timers, redisStore, customStore,
                   proc, latest, seen>>

Init ==
    /\ now = 0
    /\ backend \in Backends
    /\ cfgTtl \in CfgTTLs
    /\ cache = NoEntries
    /\ timers = EmptyBag
    /\ isConnected = TRUE
    /\ redisStore = NoEntries
    /\ customStore = {}
    /\ proc = [p \in Procs |-> IdleProc]
    /\ latest = NoEntries
    /\ seen = NoEntries
    /\ overlaps = 0
    /\ quits = NoQuits
    /\ call = NoCall

\* overlapping calls of the operations that use the cache
Next ==
    \/ \E p \in Procs, i \in MsgIds : IsDuplicateCall(p, i)
    \/ \E p \in Procs, i \in MsgIds : RemoveCall(p, i)
    \/ \E p \in Procs, capable \in BOOLEAN : ClearCall(p, capable)
    \/ \E p \in Procs, replied \in BOOLEAN : HasResume(p, replied)
    \/ \E p \in Procs, replied \in BOOLEAN : SetResume(p, replied)
    \/ \E p \in Procs, replied \in BOOLEAN : DeleteResume(p, replied)
    \/ \E p \in Procs, replied \in BOOLEAN : ClearResume(p, replied)
    \/ \E p \in Procs : Return(p)
    \/ ConnectEvent
    \/ EndEvent
    \/ TimerFire
    \/ Tick

Spec == Init /\ [][Next]_vars

\* every operation, each call awaited before the next begins
NextSeq ==
    \/ AllIdle /\ \E p \in Procs, i \in MsgIds : IsDuplicateCall(p, i)
    \/ AllIdle /\ \E p \in Procs, i \in MsgIds : ProcessCall(p, i)
    \/ AllIdle /\ \E p \in Procs, i \in MsgIds : RemoveCall(p, i)
    \/ AllIdle /\ \E p \in Procs, capable \in BOOLEAN : ClearCall(p, capable)
    \/ \E p \in Procs, replied \in BOOLEAN : HasResume(p, replied)
    \/ \E p \in Procs, replied \in BOOLEAN : SetResume(p, replied)
    \/ \E p \in Procs, returned \in BOOLEAN : ProcessorResume(p, returned)
    \/ \E p \in Procs, replied \in BOOLEAN : DeleteResume(p, replied)
    \/ \E p \in Procs, replied \in BOOLEAN : ClearResume(p, replied)
    \/ \E p \in Procs : Return(p)
    \/ ConnectEvent
    \/ EndEvent
    \/ TimerFire
    \/ Tick

SpecSeq == Init /\ [][NextSeq]_vars

-----------------------------------------------------------------------------
(* Direct use of the networked cache *)

RedisKeys == {<<"a">>, <<"b">>, <<>>}
RedisTTLs == {-1, 0, 1, 2}

\* RedisCache.set up to `await this.client.set(...)`
RedisSetCall(p, key, ttl) ==
    /\ Free(p)
    /\ LET b == RedisCache_set_begin(isConnected, key, ttl)
           me == [IdleProc EXCEPT !.op = "set", !.key = key, !.ttl = ttl,
                                  !.down = ~isConnected]
       IN proc' = [proc EXCEPT ![p] =
              CASE b.out = "throw" -> [me EXCEPT !.pc = "done", !.ret = "throw"]
                [] b.out = "return" -> [me EXCEPT !.pc = "done", !.ret = "void"]
                [] OTHER -> [me EXCEPT !.pc = "set_wait", !.io = TRUE]]
    /\ UNCHANGED <<call, overlaps, quits, now, backend, cfgTtl, cache, timers, isConnected,
                   redisStore, customStore, latest, seen>>

\* RedisCache.set from the reply to SET to its return
RedisSetResume(p, replied) ==
    /\ proc[p].pc = "set_wait" /\ proc[p].op = "set"
    /\ NetworkTurn
    /\ LET me == proc[p]
           r == RedisCache_set_finish(redisStore, me.key, me.ttl, replied, now)
       IN /\ redisStore' = r.S
          /\ proc' = [proc EXCEPT ![p].pc = "done", ![p].io = FALSE,
                                  ![p].raised = ~replied,
                                  ![p].ret = IF r.out = "throw" THEN "throw" ELSE "void"]
    /\ UNCHANGED <<call, overlaps, quits, now, backend, cfgTtl, cache, timers, isConnected,
                   customStore, latest, seen>>

\* RedisCache.has up to `await this.client.exists(...)`
RedisHasCall(p, key) ==
    /\ Free(p)
    /\ LET b == RedisCache_has_begin(isConnected, key)
           me == [IdleProc EXCEPT !.op = "has", !.key = key, !.down = ~isConnected]
       IN proc' = [proc EXCEPT ![p] =
              IF b.io THEN [me EXCEPT !.pc = "has_wait", !.io = TRUE]
              ELSE [me EXCEPT !.pc = "done", !.ret = BoolRet(b.ret)]]
    /\ UNCHANGED <<call, overlaps, quits, now, backend, cfgTtl, cache, timers, isConnected,
                   redisStore, customStore, latest, seen>>

\* RedisCache.has from the reply to EXISTS to its return
RedisHasResume(p, replied) ==
    /\ proc[p].pc = "has_wait" /\ proc[p].op = "has"
    /\ NetworkTurn
    /\ proc' = [proc EXCEPT ![p].pc = "done", ![p].io = FALSE,
                   ![p].raised = ~replied,
                   ![p].ret = BoolRet(RedisCache_has_finish(redisStore, proc[p].key,
                                                            replied, now))]
    /\ UNCHANGED <<call, overlaps, quits, now, backend, cfgTtl, cache, timers, isConnected,
                   redisStore, customStore, latest, seen>>

\* RedisCache.delete up to `await this.client.del(...)`
RedisDeleteCall(p, key) ==
    /\ Free(p)
    /\ LET b == RedisCache_delete_begin(isConnected, key)
           me == [IdleProc EXCEPT !.op = "delete", !.key = key, !.down = ~isConnected]
       IN proc' = [proc EXCEPT ![p] =
              IF b.io THEN [me EXCEPT !.pc = "del_wait", !.io = TRUE]
              ELSE [me EXCEPT !.pc = "done",
                              !.ret = IF b.out = "throw" THEN "throw" ELSE "void"]]
    /\ UNCHANGED <<call, overlaps, quits, now, backend, cfgTtl, cache, timers, isConnected,
                   redisStore, customStore, latest, seen>>

\* RedisCache.delete from the reply to DEL to its return
RedisDeleteResume(p, replied) ==
    /\ proc[p].pc = "del_wait" /\ proc[p].op = "delete"
    /\ NetworkTurn
    /\ LET r == RedisCache_delete_finish(redisStore, proc[p].key, replied)
       IN /\ redisStore' = r.S
          /\ proc' = [proc EXCEPT ![p].pc = "done", ![p].io = FALSE,
                                  ![p].raised = ~replied,
                                  ![p].ret = IF r.out = "throw" THEN "throw" ELSE "void"]
    /\ UNCHANGED <<call, overlaps, quits, now, backend, cfgTtl, cache, timers, isConnected,
                   customStore, latest, seen>>

\* RedisCache.disconnect up to `await this.client.quit()`
RedisDisconnectCall(p) ==
    /\ Free(p)
    /\ LET b == RedisCache_disconnect_begin(isConnected)
           me == [IdleProc EXCEPT !.op = "disconnect", !.down = ~isConnected]
       IN /\ b.io => quits.sent < MaxQuits
          /\ proc' = [proc EXCEPT ![p] =
                 IF b.io THEN [me EXCEPT !.pc = "quit_wait", !.io = TRUE]
                 ELSE [me EXCEPT !.pc = "done", !.ret = b.ret]]
          /\ quits' = IF b.io THEN [quits EXCEPT !.sent = @ + 1] ELSE quits
    /\ UNCHANGED <<call, overlaps, now, backend, cfgTtl, cache, timers, isConnected,
                   redisStore, customStore, latest, seen>>

\* RedisCache.disconnect from the reply to QUIT to its return
RedisDisconnectResume(p, replied) ==
    /\ proc[p].pc = "quit_wait"
    /\ NetworkTurn
    /\ LET r == RedisCache_disconnect_finish(isConnected, replied)
       IN /\ isConnected' = r.connected
          /\ proc' = [proc EXCEPT ![p].pc = "done", ![p].io = FALSE,
                                  ![p].raised = ~replied, ![p].ret = r.ret]
    /\ quits' = IF replied THEN [quits EXCEPT !.ok = @ + 1] ELSE quits
    /\ UNCHANGED <<call, overlaps, now, backend, cfgTtl, cache, timers, redisStore,
                   customStore, latest, seen>>

InitRedis ==
    /\ now = 0
    /\ backend = "redis"
    /\ cfgTtl = 0
    /\ cache = NoEntries
    /\ timers = EmptyBag
    /\ isConnected = TRUE
    /\ redisStore = NoEntries
    /\ customStore = {}
    /\ proc = [p \in Procs |-> IdleProc]
    /\ latest = NoEntries
    /\ seen = NoEntries
    /\ overlaps = 0
    /\ quits = NoQuits
    /\ call = NoCall

NextRedis ==
    \/ \E p \in Procs, key \in RedisKeys, ttl \in RedisTTLs : RedisSetCall(p, key, ttl)
    \/ \E p \in Procs, replied \in BOOLEAN : RedisSetResume(p, replied)
    \/ \E p \in Procs, key \in RedisKeys : RedisHasCall(p, key)
    \/ \E p \in Procs, replied \in BOOLEAN : RedisHasResume(p, replied)
    \/ \E p \in Procs, key \in RedisKeys : RedisDeleteCall(p, key)
    \/ \E p \in Procs, replied \in BOOLEAN : RedisDeleteResume(p, replied)
    \/ \E p \in Procs : RedisDisconnectCall(p)
    \/ \E p \in Procs, replied \in BOOLEAN : RedisDisconnectResume(p, replied)
    \/ \E p \in Procs : Return(p)
    \/ ConnectEvent
    \/ EndEvent
    \/ Tick

SpecRedis == InitRedis /\ [][NextRedis]_vars

\* the same operations, each call awaited before the next begins
NextRedisSeq ==
    \/ AllIdle /\ \E p \in Procs, key \in RedisKeys, ttl \in RedisTTLs :
                    RedisSetCall(p, key, ttl)
    \/ \E p \in Procs, replied \in BOOLEAN : RedisSetResume(p, replied)
    \/ AllIdle /\ \E p \in Procs, key \in RedisKeys : RedisHasCall(p, key)
    \/ \E p \in Procs, replied \in BOOLEAN : RedisHasResume(p, replied)
    \/ AllIdle /\ \E p \in Procs, key \in RedisKeys : RedisDeleteCall(p, key)
    \/ \E p \in Procs, replied \in BOOLEAN : RedisDeleteResume(p, replied)
    \/ AllIdle /\ \E p \in Procs : RedisDisconnectCall(p)
    \/ \E p \in Procs, replied \in BOOLEAN : RedisDisconnectResume(p, replied)
    \/ \E p \in Procs : Return(p)
    \/ ConnectEvent
    \/ EndEvent
    \/ Tick

SpecRedisSeq == InitRedis /\ [][NextRedisSeq]_vars

-----------------------------------------------------------------------------
(* Claims about the in-process cache, checked under SpecMem *)

\* C7: has(k) called right after set(k, ttl) with ttl > 0 has completed returns
\* true, and has(k) called when the deadline of the most recent set of k has
\* passed (or that entry was deleted or cleared) returns false.
C7_TtlContract ==
    [][/\ \A p \in Procs, k \in Keys :
            (/\ proc[p].pc = "set_wait" /\ proc[p].op = "set"
             /\ proc[p].key = k /\ proc[p].ttl > 0
             /\ proc'[p].pc = "idle")
            => HasNow(k)'
       /\ \A k \in Keys :
            k \in DOMAIN latest' =>
              /\ (latest'[k].live /\ now' > latest'[k].deadline) => ~HasNow(k)'
              /\ ~latest'[k].live => ~HasNow(k)'
      ]_vars

\* C7 witness: the deadline of a stored entry has passed, its eviction callback
\* has not run yet, and has reports the key absent
C7_Witness ==
    \E k \in Keys :
        /\ k \in DOMAIN latest /\ latest[k].live
        /\ latest[k].deadline > 0
        /\ now > latest[k].deadline
        /\ getNamespacedKey(DefaultNamespace, k) \in DOMAIN cache
        /\ ~HasNow(k)

\* C8: the entry written by the most recent set(k, ttl) is visible to has(k) at
\* every instant before its deadline, unless a later delete(k), clear() or
\* set(k, .) intervened.
C8_NoPrematureEviction ==
    \A k \in Keys :
        (k \in DOMAIN latest /\ latest[k].live /\ now < latest[k].deadline)
        => HasNow(k)

-----------------------------------------------------------------------------
(* Claims about the Deduplicator *)

Settled(p, op) == proc[p].pc = "done" /\ proc[p].op = op

\* the call of p began inside the window of a live insert of its key
WithinWindow(p) == proc[p].prior.valid /\ now < proc[p].prior.at + cfgTtl

\* the call of p began after the deadline of the last insert of its key
AfterDeadline(p) == proc[p].prior.valid /\ now > proc[p].prior.at + cfgTtl

\* messages with no explicit key whose payload is absent, or is to be hashed as
\* binary and has no serializeBinary
Unhashable ==
    {i \in MsgIds :
        LET m == normalizeMessage(Messages[i])
        IN /\ ~Truthy(Get(m, "deduplicationKey"))
           /\ \/ Get(m, "payload") = Undef
              \/ /\ Get(m, "format") = Str(<<"protobuf">>)
                 /\ Get(m, "payload").sb = "none"}

\* C1: on the in-process backend, with calls that do not overlap, isDuplicate
\* for a key never inserted returns false, and isDuplicate for a key inserted
\* less than the TTL ago, and not removed or cleared since, returns true.
C1_SequentialDedup ==
    \A p \in Procs :
        (backend = "memory" /\ Settled(p, "isDuplicate") /\ proc[p].ret # "throw")
        => /\ ~proc[p].prior.ever => proc[p].ret = "false"
           /\ WithinWindow(p) => proc[p].ret = "true"

\* C1 witness: a second isDuplicate inside the window has returned true
C1_Witness ==
    \E p \in Procs :
        /\ backend = "memory" /\ Settled(p, "isDuplicate")
        /\ WithinWindow(p) /\ proc[p].ret = "true"

\* C2: nothing makes has-then-set atomic.  A call that begins while its key is
\* not in the in-process store observes absence, and a call whose reply from
\* another backend finds the key absent goes on to insert, whether or not
\* another call is between its has and its set; and every isDuplicate that has
\* called set returns false.
C2_NotAtomic ==
    [][\A p \in Procs :
         /\ (/\ backend = "memory" /\ Idle(p)
             /\ proc'[p].pc = "has_wait"
             /\ getNamespacedKey(DefaultNamespace, proc'[p].key) \notin DOMAIN cache)
            => ~proc'[p].exists
         /\ (/\ backend = "custom" /\ proc[p].pc = "has_wait"
             /\ proc[p].op = "isDuplicate" /\ proc'[p] # proc[p]
             /\ proc[p].key \notin customStore)
            => \/ proc'[p].pc = "set_wait"
               \/ proc'[p].pc = "done" /\ proc'[p].ret = "false"
         /\ (/\ proc[p].pc = "set_wait" /\ proc[p].op = "isDuplicate"
             /\ proc'[p] # proc[p])
            => proc'[p].pc = "done" /\ proc'[p].ret = "false"
      ]_vars

\* C2 witness: two overlapping isDuplicate calls for a key never inserted before
\* have both called set and both returned false
C2_Witness ==
    /\ backend = "memory"
    /\ \A p \in Procs :
         /\ Settled(p, "isDuplicate") /\ proc[p].ret = "false"
         /\ ~proc[p].prior.ever /\ proc[p].calls = 2
    /\ proc[1].key = proc[2].key

\* C3: an isDuplicate whose has or set raised has returned false, and an
\* isDuplicate raises only when it called neither.
C3_FailOpen ==
    \A p \in Procs :
        Settled(p, "isDuplicate")
        => /\ proc[p].raised => proc[p].ret = "false"
           /\ proc[p].ret = "throw" => proc[p].calls = 0

\* C3 witness: the backend raised and isDuplicate returned false
C3_Witness ==
    \E p \in Procs :
        Settled(p, "isDuplicate") /\ proc[p].raised /\ proc[p].ret = "false"

\* C4: isDuplicate on a message with no explicit key and an unhashable payload
\* raises to the caller at once: it returns no boolean, calls neither has nor
\* set, and leaves every store as it was.
C4_KeyDerivationRaises ==
    [][\A p \in Procs :
         (/\ Idle(p) /\ proc'[p].op = "isDuplicate"
          /\ proc'[p].msg \in Unhashable)
         => /\ proc'[p].pc = "done" /\ proc'[p].ret = "throw"
            /\ proc'[p].calls = 0
            /\ UNCHANGED <<cache, timers, redisStore, customStore>>
      ]_vars

\* C4 witness: isDuplicate has raised for an unhashable message
C4_Witness ==
    \E p \in Procs :
        /\ Settled(p, "isDuplicate") /\ proc[p].msg \in Unhashable
        /\ proc[p].ret = "throw" /\ proc[p].calls = 0

\* C5: an isDuplicate that finds its key present returns true, calls no set and
\* changes no store; on the in-process backend the expiry of a live entry is
\* the instant of its insert plus the TTL; and an isDuplicate that begins after
\* that deadline returns false and has inserted the key again.
C5_HitRefreshesNothing ==
    /\ [][\A p \in Procs :
            (/\ proc[p].pc = "has_wait" /\ proc[p].op = "isDuplicate"
             /\ proc'[p].pc = "done" /\ proc'[p].ret = "true")
            => /\ proc'[p].calls = 1
               /\ UNCHANGED <<cache, timers, redisStore, customStore>>
        ]_vars
    /\ [](backend = "memory" =>
            \A key \in DOMAIN seen :
                LET namespacedKey == getNamespacedKey(DefaultNamespace, key)
                IN (seen[key].valid /\ namespacedKey \in DOMAIN cache)
                   => cache[namespacedKey].expires = seen[key].at + cfgTtl)
    /\ [](\A p \in Procs :
            (backend = "memory" /\ Settled(p, "isDuplicate") /\ AfterDeadline(p))
            => /\ proc[p].ret = "false"
               /\ getNamespacedKey(DefaultNamespace, proc[p].key) \in DOMAIN cache
               /\ seen[proc[p].key].at = now)

\* C5 witness: an isDuplicate that began after the deadline has returned false
C5_Witness ==
    \E p \in Procs :
        /\ backend = "memory" /\ Settled(p, "isDuplicate") /\ cfgTtl > 0
        /\ AfterDeadline(p) /\ proc[p].ret = "false"

C9_DownIsNotDuplicate ==
    \A p \in Procs :
        (/\ backend = "redis" /\ Settled(p, "isDuplicate")
         /\ proc[p].down /\ proc[p].calls > 0)
        => proc[p].ret = "false"

\* C9 witness: the key is stored on the server, the connection is down, and
\* isDuplicate has returned false
C9_Witness ==
    \E p \in Procs :
        /\ backend = "redis" /\ Settled(p, "isDuplicate") /\ proc[p].down
        /\ proc[p].ret = "false"
        /\ Server_exists(redisStore, getKey(proc[p].key).v, now)

-----------------------------------------------------------------------------
(* Claims about the networked cache, checked under SpecRedis *)

\* C10: a set with a valid key and ttl that completes without raising has
\* written the entry (so a set made with the connection down, or whose write
\* failed, raises).
C10_SetNeverSilent ==
    \A p \in Procs :
        (/\ Settled(p, "set") /\ proc[p].ret = "void"
         /\ proc[p].key # <<>> /\ proc[p].ttl > 0)
        => Server_exists(redisStore, getKey(proc[p].key).v, now)

-----------------------------------------------------------------------------
(* Further claims about the in-process cache, checked under SpecMem *)

\* C11: set(k, ttl) with ttl <= 0 on the in-process cache fails with an error
\* and leaves the store and the pending eviction timers as they were.
C11_InvalidTtlRejected ==
    [][\A p \in Procs :
         (/\ backend = "memory" /\ Idle(p)
          /\ proc'[p].op = "set" /\ proc'[p].ttl <= 0)
         => /\ proc'[p].pc = "done" /\ proc'[p].ret = "throw"
            /\ UNCHANGED <<cache, timers>>
      ]_vars

-----------------------------------------------------------------------------
(* Further claims about the networked cache, checked under SpecRedis *)

\* C12: a set with an empty key or with ttl <= 0 on the networked cache fails
\* with an error and sends no command, whether the connection is up or down.
C12_SetValidatesFirst ==
    \A p \in Procs :
        (proc[p].op = "set" /\ (proc[p].key = <<>> \/ proc[p].ttl <= 0))
        => /\ proc[p].pc = "done"
           /\ proc[p].ret = "throw"
           /\ ~proc[p].io

C12_Witness ==
    \E p \in Procs :
        /\ Settled(p, "set") /\ proc[p].ret = "throw"
        /\ proc[p].down /\ proc[p].key # <<>> /\ proc[p].ttl < 0

-----------------------------------------------------------------------------
(* Further claims about the Deduplicator *)

\* C13: removeFromCache and clearCache are not fail-open.  When the delete of
\* the cache raises during removeFromCache, or its clear raises during
\* clearCache, the caller gets the error; when the cache has no clear,
\* clearCache returns normally and the cache is not touched.
C13_AdminNotFailOpen ==
    [][\A p \in Procs :
         /\ (/\ proc[p].pc \in {"del_wait", "clear_wait"}
             /\ proc[p].op \in {"remove", "clear"}
             /\ proc'[p].pc = "done" /\ proc'[p].raised)
            => proc'[p].ret = "throw"
         /\ (Idle(p) /\ proc'[p].op = "clear" /\ proc'[p].calls = 0)
            => /\ proc'[p].pc = "done" /\ proc'[p].ret = "void"
               /\ UNCHANGED <<cache, timers, redisStore, customStore>>
      ]_vars

C13_Witness ==
    \E p \in Procs :
        /\ backend = "custom" /\ customStore # {}
        /\ Settled(p, "clear") /\ proc[p].calls = 1
        /\ proc[p].raised /\ proc[p].ret = "throw"

\* C14: with the networked cache, clearCache raises when the connection is down
\* and when the scan or the bulk delete fails; it completes normally only when
\* the keys under the prefix were removed.
C14_ClearFailureVisible ==
    [][\A p \in Procs :
         /\ (/\ backend = "redis" /\ ~isConnected
             /\ Idle(p) /\ proc'[p].op = "clear")
            => proc'[p].pc = "done" /\ proc'[p].ret = "throw"
         /\ (/\ backend = "redis" /\ proc[p].pc = "clear_wait"
             /\ proc'[p].pc = "done" /\ proc'[p].ret = "void")
            => \A x \in DOMAIN redisStore' : ~IsPrefixOf(DefaultPrefix, x)
      ]_vars

-----------------------------------------------------------------------------
(* Claims about delete and clear of the in-process cache, under SpecMem *)

\* C15: delete on the in-process cache is idempotent and never raises.  Deleting
\* an absent key changes nothing; deleting a present key removes the entry and
\* cancels its timer, so that has(k) is false afterwards; a second delete of
\* the same key leaves the cache as the first left it.
C15_DeleteIdempotent ==
    [][\A p \in Procs, key \in Keys :
         (Idle(p) /\ proc'[p].op = "delete" /\ proc'[p].key = key)
         => LET namespacedKey == getNamespacedKey(DefaultNamespace, key)
                after == [cache |-> cache', timers |-> timers']
            IN /\ proc'[p].pc = "done" /\ proc'[p].ret = "void"
               /\ namespacedKey \notin DOMAIN cache => UNCHANGED <<cache, timers>>
               /\ namespacedKey \in DOMAIN cache
                  => /\ cache' = Without(cache, namespacedKey)
                     /\ timers' = clearTimeout(timers, cache[namespacedKey].timeout)
                     /\ BagCardinality(timers') < BagCardinality(timers)
               /\ ~MemoryCache_has(after, key, now').ret
               /\ MemoryCache_delete(after, key) = after
      ]_vars

C15_Witness ==
    \E p \in Procs :
        /\ Settled(p, "delete") /\ proc[p].exists /\ proc[p].ret = "void"
        /\ ~HasNow(proc[p].key)
        /\ timers # EmptyBag

\* C16: when clear() of the in-process cache completes, has(k) is false for
\* every key, and no eviction timer scheduled by an earlier set is pending,
\* whatever came before, overlapping sets included.
C16_ClearLeavesNothing ==
    [][\A p \in Procs :
         (Idle(p) /\ proc'[p].op = "clear")
         => /\ proc'[p].pc = "done" /\ proc'[p].ret = "void"
            /\ \A key \in Keys :
                 ~MemoryCache_has([cache |-> cache', timers |-> timers'], key, now').ret
            /\ timers' = EmptyBag
      ]_vars

-----------------------------------------------------------------------------
(* Claims about has, delete and disconnect of the networked cache, under SpecRedis *)

\* C17: has on the networked cache is fail-open and never raises.  With the
\* connection down it returns false and sends no query; when the query fails
\* it returns false.
C17_HasFailOpen ==
    \A p \in Procs :
        proc[p].op = "has"
        => /\ proc[p].pc = "done" => proc[p].ret \in {"true", "false"}
           /\ proc[p].down
              => proc[p].pc = "done" /\ proc[p].ret = "false" /\ ~proc[p].io
           /\ (proc[p].pc = "done" /\ proc[p].raised) => proc[p].ret = "false"

C17_Witness ==
    \E p \in Procs :
        /\ Settled(p, "has") /\ proc[p].raised /\ proc[p].ret = "false"
        /\ Server_exists(redisStore, getKey(proc[p].key).v, now)

\* C18: delete on the networked cache never raises, for any key and any
\* connection status: it returns normally when the key is empty, when the
\* connection is down and when the DEL is rejected.
C18_DeleteNeverRaises ==
    \A p \in Procs :
        (proc[p].op = "delete" /\ proc[p].pc = "done") => proc[p].ret = "void"

C18_Witness ==
    \E p \in Procs :
        /\ Settled(p, "delete") /\ proc[p].raised /\ proc[p].ret = "void"
        /\ getKey(proc[p].key).v \in DOMAIN redisStore

\* C19 as stated: in a sequence of disconnect() calls that do not overlap, with
\* no reconnect in between, at most one QUIT is sent.
C19_AtMostOneClose == quits.sent <= 1

\* C19: disconnect() called when the status is already disconnected returns
\* true and sends no QUIT; in a sequence of disconnect() calls that do not
\* overlap, with no reconnect in between, no QUIT is sent after one that was
\* acknowledged, and a call whose QUIT is rejected returns false.
C19_DisconnectIdempotent ==
    [][\A p \in Procs :
         /\ (Idle(p) /\ proc'[p].op = "disconnect" /\ ~isConnected)
            => /\ proc'[p].pc = "done" /\ proc'[p].ret = "true"
               /\ ~proc'[p].io
               /\ UNCHANGED <<quits, isConnected>>
         /\ (Idle(p) /\ proc'[p].op = "disconnect" /\ proc'[p].io)
            => quits.ok = 0
         /\ (proc[p].pc = "quit_wait" /\ proc'[p].pc = "done")
            => /\ proc'[p].ret = IF proc'[p].raised THEN "false" ELSE "true"
               /\ proc'[p].raised => UNCHANGED isConnected
               /\ ~proc'[p].raised => ~isConnected'
         /\ quits'.ok <= 1
      ]_vars

C19_Witness ==
    \E p \in Procs :
        /\ Settled(p, "disconnect") /\ proc[p].down /\ proc[p].ret = "true"
        /\ quits.sent = 1 /\ quits.ok = 1

-----------------------------------------------------------------------------
(* Claims about processIfNotDuplicate, under SpecSeq *)

\* C20: when isDuplicate returned false and the processor raises,
\* processIfNotDuplicate raises that error and returns no tagged result.
C20_ProcessorFailurePropagates ==
    \A p \in Procs :
        (Settled(p, "process") /\ proc[p].failed)
        => proc[p].invoked /\ proc[p].ret = "throw"

C20_Witness ==
    \E p \in Procs :
        /\ Settled(p, "process") /\ proc[p].invoked /\ proc[p].failed
        /\ proc[p].ret = "throw"
        /\ ~proc[p].raised

-----------------------------------------------------------------------------
(* The hasher called on two payloads *)

\* the state of the caches while a synchronous function is examined
NoSystem ==
    /\ now = 0
    /\ backend = "memory"
    /\ cfgTtl = 0
    /\ cache = NoEntries
    /\ timers = EmptyBag
    /\ isConnected = TRUE
    /\ redisStore = NoEntries
    /\ customStore = {}
    /\ proc = [p \in Procs |-> IdleProc]
    /\ latest = NoEntries
    /\ seen = NoEntries
    /\ overlaps = 0
    /\ quits = NoQuits

\* the payloads given to hashJson: primitives, flat objects and arrays of
\* primitives, and objects and arrays that hold objects and arrays
HashAtoms == {Null, Bool(TRUE), Num(1), NaN, Str(<<"1">>)}
InnerAtoms == {Null, Num(1)}

ObjectsOver(V) ==
    {Obj(<<>>)}
    \cup {Obj(<<<<k, v>>>>) : k \in {"a", "b"}, v \in V}
    \cup {Obj(<<<<"a", v>>, <<"b", w>>>>) : v \in V, w \in V}
    \cup {Obj(<<<<"b", w>>, <<"a", v>>>>) : v \in V, w \in V}

ArraysOver(V) ==
    {Arr(<<>>)} \cup {Arr(<<v>>) : v \in V} \cup {Arr(<<v, w>>) : v \in V, w \in V}

InnerValues ==
    {Obj(<<<<"a", v>>, <<"b", w>>>>) : v \in InnerAtoms, w \in InnerAtoms}
    \cup {Obj(<<<<"b", w>>, <<"a", v>>>>) : v \in InnerAtoms, w \in InnerAtoms}
    \cup {Arr(<<Null, Num(1)>>), Arr(<<Num(1), Null>>)}

Payloads ==
    HashAtoms \cup ObjectsOver(HashAtoms) \cup ArraysOver(HashAtoms)
    \cup ObjectsOver(InnerValues) \cup ArraysOver(InnerValues)

InitHash ==
    /\ NoSystem
    /\ \E a \in Payloads, b \in Payloads :
         call = [fn |-> "hashJson", a |-> a, b |-> b, done |-> FALSE,
                 ha |-> Throw("none"), hb |-> Throw("none")]

\* hashJson(a) and hashJson(b)
HashJsonCall ==
    /\ call.fn = "hashJson" /\ ~call.done
    /\ call' = [call EXCEPT !.done = TRUE, !.ha = hashJson(call.a),
                            !.hb = hashJson(call.b)]
    /\ UNCHANGED <<now, backend, cfgTtl, cache, timers, isConnected, redisStore,
                   customStore, proc, latest, seen, overlaps, quits>>

NextHash == HashJsonCall

SpecHash == InitHash /\ [][NextHash]_vars

\* x and y are deeply equal, the order of the fields of an object left aside
RECURSIVE SameUpToFieldOrder(_, _)
SameUpToFieldOrder(x, y) ==
    IF x.t # y.t THEN FALSE
    ELSE IF x.t = "arr"
    THEN /\ Len(x.v) = Len(y.v)
         /\ \A i \in 1..Len(x.v) : SameUpToFieldOrder(x.v[i], y.v[i])
    ELSE IF x.t = "obj"
    THEN /\ SeqToSet(OwnKeys(x)) = SeqToSet(OwnKeys(y))
         /\ \A k \in SeqToSet(OwnKeys(x)) : SameUpToFieldOrder(Get(x, k), Get(y, k))
    ELSE x = y

\* C21: two structured payloads that are deeply equal up to the order of the
\* fields of their objects, at every nesting level, have the same hash.
C21_FieldOrderIndependent ==
    (call.fn = "hashJson" /\ call.done /\ SameUpToFieldOrder(call.a, call.b))
    => call.ha.ok /\ call.hb.ok /\ call.ha = call.hb

C21_Witness ==
    /\ call.fn = "hashJson" /\ call.done
    /\ call.a # call.b /\ SameUpToFieldOrder(call.a, call.b)
    /\ \E k \in {"a", "b"} : Get(call.a, k).t = "obj" /\ Get(call.a, k) # Get(call.b, k)
    /\ call.ha = call.hb

\* C22: two payloads built from null, booleans, numbers, strings, arrays and
\* objects that differ in a field value, or in the order of the elements of an
\* array, have different canonical serializations, and different hashes.
C22_DistinctPayloadsDistinctHashes ==
    (call.fn = "hashJson" /\ call.done /\ ~SameUpToFieldOrder(call.a, call.b))
    => /\ stringify(normalizeObject(call.a)) # stringify(normalizeObject(call.b))
       /\ call.ha # call.hb

-----------------------------------------------------------------------------
(* The derivation of the cache key for two messages *)

KeyPayloads ==
    {Num(1), Num(2), Undef,
     Obj(<<<<"a", Num(1)>>, <<"b", Num(2)>>>>), Obj(<<<<"b", Num(2)>>, <<"a", Num(1)>>>>)}
KeyFormats == {<<>>, <<<<"format", Str(<<"json">>)>>>>, <<<<"format", Str(<<"protobuf">>)>>>>}
ExplicitKeys ==
    {<<>>} \cup {<<<<"deduplicationKey", Str(k)>>>> : k \in {<<>>, <<"k">>, <<"j">>}}

\* Message<T>: payload, and optionally format and deduplicationKey
Envelopes ==
    {Obj(<<<<"payload", p>>>> \o f \o k) :
        p \in KeyPayloads, f \in KeyFormats, k \in ExplicitKeys}

InitKey ==
    /\ NoSystem
    /\ \E a \in Envelopes, b \in Envelopes :
         call = [fn |-> "getCacheKey", a |-> a, b |-> b, done |-> FALSE,
                 ka |-> Throw("none"), kb |-> Throw("none")]

\* normalizeMessage and getCacheKey, as isDuplicate calls them, for a and for b
GetCacheKeyCall ==
    /\ call.fn = "getCacheKey" /\ ~call.done
    /\ call' = [call EXCEPT
                  !.done = TRUE,
                  !.ka = getCacheKey(DefaultNamespace, normalizeMessage(call.a)),
                  !.kb = getCacheKey(DefaultNamespace, normalizeMessage(call.b))]
    /\ UNCHANGED <<now, backend, cfgTtl, cache, timers, isConnected, redisStore,
                   customStore, proc, latest, seen, overlaps, quits>>

NextKey == GetCacheKeyCall

SpecKey == InitKey /\ [][NextKey]_vars

\* C23: a message that carries an explicit key gets the cache key
\* namespace:explicitKey and its payload is not hashed, so two messages with the
\* same explicit key get the same cache key whatever their payloads; a message
\* without one gets namespace:hash(payload, format), so two such messages with
\* the same canonical payload and the same format get the same cache key.
C23_KeyDerivation ==
    (call.fn = "getCacheKey" /\ call.done)
    => LET explicit(m) == Get(m, "deduplicationKey")
           Expected(m) ==
               IF HasProp(m, "deduplicationKey")
               THEN Ok(DefaultNamespace \o <<":">> \o explicit(m).v)
               ELSE LET h == hashMessage(Get(m, "payload"), Get(m, "format"))
                    IN IF h.ok THEN Ok(DefaultNamespace \o <<":">> \o h.v) ELSE h
       IN /\ call.ka = Expected(call.a)
          /\ call.kb = Expected(call.b)
          /\ (/\ HasProp(call.a, "deduplicationKey")
              /\ HasProp(call.b, "deduplicationKey")
              /\ explicit(call.a) = explicit(call.b))
             => call.ka.ok /\ call.ka = call.kb
          /\ (/\ ~HasProp(call.a, "deduplicationKey")
              /\ ~HasProp(call.b, "deduplicationKey")
              /\ Get(call.a, "format") = Get(call.b, "format")
              /\ SameUpToFieldOrder(Get(call.a, "payload"), Get(call.b, "payload")))
             => call.ka = call.kb

-----------------------------------------------------------------------------
(* Construction of a Deduplicator: src/unnamed/part_003                    *)

DefaultTtl == 300

\* x ?? d
Coalesce(x, d) == IF x \in {Undef, Null} THEN d ELSE x

\* `${x}` for a string or undefined
TemplateString(x) == IF x = Undef THEN <<"undefined">> ELSE x.v

\* the properties of an object literal after `name: value` is added to them
SetProp(pairs, name, value) ==
    IF \E i \in 1..Len(pairs) : pairs[i][1] = name
    THEN [i \in 1..Len(pairs) |-> IF pairs[i][1] = name THEN <<name, value>> ELSE pairs[i]]
    ELSE Append(pairs, <<name, value>>)

\* the properties of an object literal after `...source` is added to them:
\* every own property of source, those whose value is undefined too
RECURSIVE SpreadInto(_, _)
SpreadInto(pairs, source) ==
    IF source = <<>> THEN pairs
    ELSE SpreadInto(SetProp(pairs, source[1][1], source[1][2]), Tail(source))

\* Deduplicator.constructor: this.cache and this.options
Deduplicator_constructor(options) ==
    [cache |-> IF Truthy(Get(options, "cache")) THEN Get(options, "cache").v
               ELSE <<"MemoryCache">>,
     options |-> Obj(SpreadInto(
         <<<<"ttl", Coalesce(Get(options, "ttl"), Num(DefaultTtl))>>,
           <<"namespace", Coalesce(Get(options, "namespace"), Str(DefaultNamespace))>>,
           <<"debug", Coalesce(Get(options, "debug"), Bool(FALSE))>>>>,
         options.v))]

\* createMemoryDeduplicator: the options it hands to the constructor
createMemoryDeduplicator(options) ==
    Obj(SetProp(SpreadInto(<<>>, options.v), "cache", Str(<<"MemoryCache">>)))

\* Deduplicator.createRedisDeduplicator: the options it hands to the constructor
createRedisDeduplicator(options) ==
    LET deduplicatorOptions ==
            SelectSeq(options.v, LAMBDA pr : pr[1] \notin {"redis", "ttl", "namespace"})
        ttl == Get(options, "ttl")
        namespace == Get(options, "namespace")
    IN Obj(SetProp(SetProp(SetProp(SpreadInto(<<>>, deduplicatorOptions),
               "cache", Str(<<"RedisCache">>)),
               "ttl", Coalesce(ttl, Get(options, "ttl"))),
               "namespace", Coalesce(namespace, Get(options, "namespace"))))

\* the ttl an entry is inserted with by `this.cache.set(key, this.options.ttl)`:
\* RedisCache.set takes its default, BaseCache's 300, for undefined
InsertedTtl(cacheName, ttl) ==
    IF cacheName = <<"RedisCache">> /\ ttl = Undef THEN Num(DefaultTtl) ELSE ttl

ConstructionPaths == {"constructor", "createMemoryDeduplicator", "createRedisDeduplicator"}
TtlOptions == {<<>>, <<<<"ttl", Undef>>>>, <<<<"ttl", Num(60)>>>>}
NamespaceOptions ==
    {<<>>, <<<<"namespace", Undef>>>>, <<<<"namespace", Str(<<"app">>)>>>>}
DebugOptions == {<<>>, <<<<"debug", Bool(TRUE)>>>>}
OptionObjects ==
    {Obj(t \o n \o d) : t \in TtlOptions, n \in NamespaceOptions, d \in DebugOptions}
ConfigMessages == {MsgAB, MsgKey}

InitConfig ==
    /\ NoSystem
    /\ \E path \in ConstructionPaths, o \in OptionObjects, m \in ConfigMessages :
         call = [fn |-> "construct", path |-> path, given |-> o, message |-> m,
                 step |-> "new", built |-> Obj(<<>>), cacheName |-> <<>>,
                 key |-> Throw("none"), ttl |-> Undef]

\* new Deduplicator(options), createMemoryDeduplicator(options) or
\* Deduplicator.createRedisDeduplicator(options)
ConstructCall ==
    /\ call.fn = "construct" /\ call.step = "new"
    /\ LET handed == CASE call.path = "constructor" -> call.given
                       [] call.path = "createMemoryDeduplicator" ->
                            createMemoryDeduplicator(call.given)
                       [] call.path = "createRedisDeduplicator" ->
                            createRedisDeduplicator(call.given)
           d == Deduplicator_constructor(handed)
       IN call' = [call EXCEPT !.step = "built", !.built = d.options,
                               !.cacheName = d.cache]
    /\ UNCHANGED <<now, backend, cfgTtl, cache, timers, isConnected, redisStore,
                   customStore, proc, latest, seen, overlaps, quits>>

\* isDuplicate on the constructed Deduplicator: the key it derives and the ttl
\* the entry is inserted with
InsertCall ==
    /\ call.fn = "construct" /\ call.step = "built"
    /\ call' = [call EXCEPT
                  !.step = "inserted",
                  !.key = getCacheKey(TemplateString(Get(call.built, "namespace")),
                                      normalizeMessage(call.message)),
                  !.ttl = InsertedTtl(call.cacheName, Get(call.built, "ttl"))]
    /\ UNCHANGED <<now, backend, cfgTtl, cache, timers, isConnected, redisStore,
                   customStore, proc, latest, seen, overlaps, quits>>

NextConfig == ConstructCall \/ InsertCall

SpecConfig == InitConfig /\ [][NextConfig]_vars

\* C24: a Deduplicator made by the constructor, by createMemoryDeduplicator or by
\* createRedisDeduplicator without a ttl option inserts its entries with ttl
\* 300 seconds, and made without a namespace option it prefixes every key it
\* derives with 'ts-dedup'.
C24_Defaults ==
    (call.fn = "construct" /\ call.step = "inserted")
    => /\ ~HasProp(call.given, "ttl") => call.ttl = Num(300)
       /\ ~HasProp(call.given, "namespace")
          => call.key.ok /\ IsPrefixOf(<<"ts-dedup", ":">>, call.key.v)

-----------------------------------------------------------------------------
(* Further claims about the in-process cache, under SpecMem *)

\* the number of pending timers whose callback deletes namespacedKey
PendingFor(namespacedKey) ==
    BagCardinality([tm \in {x \in BagToSet(timers) : x.key = namespacedKey} |->
                       CopiesIn(tm, timers)])

\* C25: in every state between the steps of set, has, delete and clear, two
\* overlapping sets of one key included, every entry of the store has exactly
\* one pending eviction timer, the one recorded in the entry, which targets the
\* key of the entry, and every pending timer is recorded in an entry.
C25_StoreTimerConsistent ==
    /\ \A k \in DOMAIN cache :
         /\ cache[k].timeout.key = k
         /\ BagIn(cache[k].timeout, timers)
         /\ PendingFor(k) = 1
    /\ \A tm \in BagToSet(timers) :
         tm.key \in DOMAIN cache /\ cache[tm.key].timeout = tm

-----------------------------------------------------------------------------
(* Claims about the in-process cache used one call at a time, under SpecMemSeq *)

\* C26: when set(k, t2) is called, overlapping no other set of k, while the
\* entry of an earlier set(k, t1) exists, the earlier eviction callback is
\* cancelled before the new one is scheduled, the deadline becomes the time of
\* the second call plus t2, and has(k) stays true until that deadline, also
\* when the first deadline passes before it.
C26_OverwriteRestartsTtl ==
    [][\A p \in Procs, k \in Keys :
         LET namespacedKey == getNamespacedKey(DefaultNamespace, k)
         IN /\ (/\ Idle(p) /\ proc'[p].op = "set" /\ proc'[p].key = k
                /\ namespacedKey \in DOMAIN cache)
               => /\ timers' = clearTimeout(timers, cache[namespacedKey].timeout)
                  /\ BagCardinality(timers') < BagCardinality(timers)
                  /\ PendingFor(namespacedKey)' = 0
                  /\ proc'[p].pc = "set_wait"
                  /\ proc'[p].expires = now + proc'[p].ttl
            /\ (/\ proc[p].pc = "set_wait" /\ proc[p].op = "set" /\ proc[p].key = k
                /\ proc'[p].pc = "idle")
               => /\ namespacedKey \in DOMAIN cache'
                  /\ cache'[namespacedKey].expires = proc[p].expires
                  /\ PendingFor(namespacedKey)' = 1
                  /\ latest'[k].deadline = proc[p].expires
            /\ (/\ k \in DOMAIN latest' /\ latest'[k].live
                /\ now' < latest'[k].deadline)
               => HasNow(k)'
      ]_vars

\* an entry was overwritten by a set that gave the key a later deadline; the
\* deadline of the overwritten entry is reached, the new one is not, and the
\* key is present
C26_Witness ==
    \E k \in Keys :
        /\ k \in DOMAIN latest /\ latest[k].live
        /\ latest[k].extended
        /\ now + 1 = latest[k].deadline
        /\ HasNow(k)

\* C27: when has(k) is called on the in-process cache while the store holds an
\* entry for k whose recorded deadline is before the present instant (its
\* eviction callback has not run), the call returns false and, within that
\* call, removes the entry and cancels the timer recorded in it.
C27_LazyExpiry ==
    [][\A p \in Procs, k \in Keys :
         LET namespacedKey == getNamespacedKey(DefaultNamespace, k)
         IN (/\ Idle(p) /\ proc'[p].op = "has" /\ proc'[p].key = k
             /\ namespacedKey \in DOMAIN cache
             /\ cache[namespacedKey].expires < now)
            => /\ proc'[p].pc = "done" /\ proc'[p].ret = "false"
               /\ namespacedKey \notin DOMAIN cache'
               /\ \A other \in DOMAIN cache \ {namespacedKey} :
                      other \in DOMAIN cache' /\ cache'[other] = cache[other]
               /\ BagIn(cache[namespacedKey].timeout, timers)
               /\ timers' = clearTimeout(timers, cache[namespacedKey].timeout)
               /\ BagCardinality(timers') = BagCardinality(timers) - 1
      ]_vars

\* a has found an entry past its deadline, answered false, and the entry is gone
C27_Witness ==
    \E p \in Procs :
        /\ Settled(p, "has") /\ proc[p].exists /\ proc[p].ret = "false"
        /\ getNamespacedKey(DefaultNamespace, proc[p].key) \notin DOMAIN cache

-----------------------------------------------------------------------------
(* RedisCache.clearWithCount over the chunks of one scan:                  *)
(* src/src/lib/cache/redis.ts.  A yielded key is numbered by its position  *)
(* in the stream; a chunk is the sequence of the keys it yields.           *)

\* the length at which the keys collected so far are queued as one DEL
BatchSize == 100

MaxChunks == 3

ChunkSizes == {0, 1, BatchSize - 1, BatchSize, BatchSize + 1}

RECURSIVE SumOf(_)
SumOf(sizes) == IF sizes = <<>> THEN 0 ELSE sizes[1] + SumOf(Tail(sizes))

\* the chunks of a stream whose chunks have the given sizes
ChunksOf(sizes) ==
    [i \in 1..Len(sizes) |->
        [j \in 1..sizes[i] |-> SumOf(SubSeq(sizes, 1, i - 1)) + j]]

ScanStreams ==
    {ChunksOf(sizes) : sizes \in UNION {[1..n -> ChunkSizes] : n \in 0..MaxChunks}}

RECURSIVE Flatten(_)
Flatten(seqs) == IF seqs = <<>> THEN <<>> ELSE seqs[1] \o Flatten(Tail(seqs))

\* the handler of 'data' that keeps the keys it has queued
clearWithCount_data_NoReset(c, keys) ==
    IF Len(keys) = 0 THEN c
    ELSE LET collected == c.keysToDelete \o keys
         IN IF Len(collected) >= BatchSize
            THEN [c EXCEPT !.pipeline = Append(@, collected),
                           !.deletedCount = @ + Len(collected),
                           !.keysToDelete = collected]
            ELSE [c EXCEPT !.keysToDelete = collected]

\* the handler of 'data'
clearWithCount_data(c, keys) ==
    IF Len(keys) = 0 THEN c
    ELSE LET collected == c.keysToDelete \o keys
         IN IF Len(collected) >= BatchSize
            THEN [c EXCEPT !.pipeline = Append(@, collected),
                           !.deletedCount = @ + Len(collected),
                           !.keysToDelete = <<>>]
            ELSE [c EXCEPT !.keysToDelete = collected]

\* the handler of 'end'; replied = FALSE is a pipeline whose exec() rejected
clearWithCount_end(c, replied) ==
    LET rest == IF Len(c.keysToDelete) > 0
                THEN [c EXCEPT !.pipeline = Append(@, c.keysToDelete),
                               !.deletedCount = @ + Len(c.keysToDelete)]
                ELSE c
        run == [rest EXCEPT !.executed = rest.deletedCount > 0, !.pc = "done"]
    IN IF run.executed /\ ~replied
       THEN [run EXCEPT !.out = "throw"]
       ELSE [run EXCEPT !.out = "return", !.ret = run.deletedCount]

\* the handler of 'error'
clearWithCount_error(c) == [c EXCEPT !.pc = "done", !.out = "throw"]

InitScan ==
    /\ NoSystem
    /\ \E connected \in BOOLEAN, scan \in ScanStreams :
         call = [fn |-> "clearWithCount", connected |-> connected, scan |-> scan,
                 pc |-> "start", next |-> 1, keysToDelete |-> <<>>, pipeline |-> <<>>,
                 deletedCount |-> 0, executed |-> FALSE, out |-> "none", ret |-> 0]

\* the call: a cache that is not connected returns 0 and scans nothing
ClearWithCountCall ==
    /\ call.fn = "clearWithCount" /\ call.pc = "start"
    /\ call' = IF call.connected
               THEN [call EXCEPT !.pc = "scanning"]
               ELSE [call EXCEPT !.pc = "done", !.out = "return", !.ret = 0]
    /\ UNCHANGED <<now, backend, cfgTtl, cache, timers, isConnected, redisStore,
                   customStore, proc, latest, seen, overlaps, quits>>

ScanData ==
    /\ call.fn = "clearWithCount" /\ call.pc = "scanning"
    /\ call.next <= Len(call.scan)
    /\ call' = [clearWithCount_data(call, call.scan[call.next]) EXCEPT !.next = @ + 1]
    /\ UNCHANGED <<now, backend, cfgTtl, cache, timers, isConnected, redisStore,
                   customStore, proc, latest, seen, overlaps, quits>>

ScanEnd ==
    /\ call.fn = "clearWithCount" /\ call.pc = "scanning"
    /\ call.next > Len(call.scan)
    /\ \E replied \in BOOLEAN : call' = clearWithCount_end(call, replied)
    /\ UNCHANGED <<now, backend, cfgTtl, cache, timers, isConnected, redisStore,
                   customStore, proc, latest, seen, overlaps, quits>>

\* the stream fails after the chunks it has yielded
ScanError ==
    /\ call.fn = "clearWithCount" /\ call.pc = "scanning"
    /\ call' = clearWithCount_error(call)
    /\ UNCHANGED <<now, backend, cfgTtl, cache, timers, isConnected, redisStore,
                   customStore, proc, latest, seen, overlaps, quits>>

NextScan == ClearWithCountCall \/ ScanData \/ ScanEnd \/ ScanError

SpecScan == InitScan /\ [][NextScan]_vars

\* the scan of the call in progress came to its end
ScanEnded == call.pc = "done" /\ call.connected /\ call.next > Len(call.scan)

\* C28: whatever chunks the scan yields, once the scan has ended every yielded
\* key is in exactly one queued DEL command, a count that is reported equals
\* the number of yielded keys, and when no key was yielded no DEL is queued and
\* the pipeline is not executed.
C28_ClearCoversScannedKeys ==
    (ScanEnded /\ call.out # "none" /\ ~(call.out = "throw" /\ ~call.executed))
    => LET yielded == Flatten(call.scan)
           deleted == Flatten(call.pipeline)
       IN /\ \A i \in 1..Len(yielded) :
                Cardinality({j \in 1..Len(deleted) : deleted[j] = yielded[i]}) = 1
          /\ Len(deleted) = Len(yielded)
          /\ \A n \in 1..Len(call.pipeline) : Len(call.pipeline[n]) > 0
          /\ call.out = "return" => call.ret = Len(yielded)
          /\ Len(yielded) > 0 => call.executed
          /\ Len(yielded) = 0 => call.pipeline = <<>> /\ ~call.executed

\* a scan of several chunks ended with a full batch and a remainder queued
C28_Witness ==
    /\ ScanEnded /\ call.out = "return"
    /\ Len(call.pipeline) >= 2
    /\ call.executed
    /\ call.ret = Len(Flatten(call.scan))
    /\ \E i \in 1..Len(call.scan) : call.scan[i] = <<>>

-----------------------------------------------------------------------------
(* The commands one call of RedisCache.set sends: src/src/lib/cache/redis.ts *)
(* A ttl is a number of ticks, TicksPerSecond of them to the second.         *)

MaxWireTtl == 5

WireKeys == {<<>>, <<"a">>, <<"b">>, <<"a", "b">>}
WireTtlOptions == {Undef, Num(1), Num(MaxWireTtl)}
WireTtlArgs == {Undef} \cup {Num(n) : n \in -1..MaxWireTtl}

\* this.defaultTtl of a cache constructed with options.ttl
RedisCache_defaultTtl(optionsTtl) ==
    Coalesce(optionsTtl, Num(DefaultTtl * TicksPerSecond)).v

\* RedisCache.set(key, ttl) up to its await: the outcome and the commands sent
RedisCache_set_wire(connected, defaultTtl, key, ttlArg) ==
    LET ttl == IF ttlArg = Undef THEN defaultTtl ELSE ttlArg.v
        b == RedisCache_set_begin(connected, key, ttl)
    IN [out |-> b.out,
        commands |-> IF b.io
                     THEN <<[name |-> "SET", key |-> getKey(key).v, value |-> "1",
                             mode |-> "EX", seconds |-> ttlSeconds(ttl)]>>
                     ELSE <<>>]

InitWire ==
    /\ NoSystem
    /\ \E connected \in BOOLEAN, optionsTtl \in WireTtlOptions,
          key \in WireKeys, ttlArg \in WireTtlArgs :
         call = [fn |-> "set", connected |-> connected, optionsTtl |-> optionsTtl,
                 key |-> key, ttlArg |-> ttlArg, done |-> FALSE,
                 out |-> "none", commands |-> <<>>]

RedisSetWire ==
    /\ call.fn = "set" /\ ~call.done
    /\ LET r == RedisCache_set_wire(call.connected,
                                    RedisCache_defaultTtl(call.optionsTtl),
                                    call.key, call.ttlArg)
       IN call' = [call EXCEPT !.done = TRUE, !.out = r.out, !.commands = r.commands]
    /\ UNCHANGED <<now, backend, cfgTtl, cache, timers, isConnected, redisStore,
                   customStore, proc, latest, seen, overlaps, quits>>

NextWire == RedisSetWire

SpecWire == InitWire /\ [][NextWire]_vars

\* the ttl, in ticks, the finished call was to use: its argument, or when that
\* was omitted the ttl the cache was configured with, 300 seconds by default
WireTtl ==
    IF call.ttlArg # Undef THEN call.ttlArg.v
    ELSE IF call.optionsTtl # Undef THEN call.optionsTtl.v
    ELSE 300 * TicksPerSecond

\* C29: a set of the networked cache with a non-empty key and a ttl above 0,
\* on a connected cache, sends exactly one SET ... EX command; its key is the
\* prefix followed by the key, and its expiry is the whole seconds of the ttl,
\* rounded down, and at least 1.  With the ttl omitted the ttl is the one the
\* cache was configured with.
C29_SetWireCommand ==
    (/\ call.fn = "set" /\ call.done
     /\ call.key # <<>> /\ WireTtl > 0 /\ call.connected)
    => /\ Len(call.commands) = 1
       /\ call.commands[1].name = "SET" /\ call.commands[1].mode = "EX"
       /\ call.commands[1].key = DefaultPrefix \o call.key
       /\ \E n \in 0..WireTtl :
             /\ n * TicksPerSecond <= WireTtl
             /\ WireTtl < (n + 1) * TicksPerSecond
             /\ call.commands[1].seconds = IF n > 1 THEN n ELSE 1

\* a set with its ttl omitted sent one command with the configured ttl, which
\* is not a whole number of seconds and is rounded down to more than one
C29_Witness ==
    /\ call.fn = "set" /\ call.done /\ call.connected
    /\ call.ttlArg = Undef /\ call.optionsTtl # Undef
    /\ Len(call.commands) = 1
    /\ call.commands[1].seconds > 1
    /\ call.commands[1].seconds * TicksPerSecond < WireTtl

-----------------------------------------------------------------------------
(* Independence of keys in the in-process cache, under SpecMem *)

\* the step changes the presence or the deadline of key, or its pending timers
KeyChanged(key) ==
    LET namespacedKey == getNamespacedKey(DefaultNamespace, key)
    IN \/ (namespacedKey \in DOMAIN cache) # (namespacedKey \in DOMAIN cache')
       \/ /\ namespacedKey \in DOMAIN cache /\ namespacedKey \in DOMAIN cache'
          /\ cache[namespacedKey] # cache'[namespacedKey]
       \/ \E tm \in BagToSet(timers) \cup BagToSet(timers') :
             /\ tm.key = namespacedKey
             /\ CopiesIn(tm, timers) # CopiesIn(tm, timers')

\* C30: in the in-process cache a step of has, set or delete on a key k, and
\* the firing of an eviction timer of k, change neither the presence, nor the
\* deadline, nor the pending timers of any other key, however the calls on
\* different keys are interleaved.
C30_KeysIndependent ==
    [][/\ \A p \in Procs, k \in Keys :
            (/\ proc'[p] # proc[p]
             /\ \/ proc'[p].op \in {"has", "set", "delete"} /\ proc'[p].key = k
                \/ proc[p].op \in {"has", "set", "delete"} /\ proc[p].key = k)
            => \A other \in Keys \ {k} : ~KeyChanged(other)
       /\ (proc' = proc /\ now' = now)
          => \E timer \in BagToSet(timers) :
                /\ timer.fireAt <= now
                /\ timers' = timers (-) SetToBag({timer})
                /\ \A other \in Keys :
                      getNamespacedKey(DefaultNamespace, other) # timer.key
                      => ~KeyChanged(other)
      ]_vars

\* the entry of one key is gone at its deadline, with no timer left for it,
\* while another key inserted before that deadline is present with its timer
C30_Witness ==
    \E k \in Keys, other \in Keys :
        /\ k # other /\ AllIdle
        /\ k \in DOMAIN latest /\ latest[k].live /\ latest[k].deadline <= now
        /\ getNamespacedKey(DefaultNamespace, k) \notin DOMAIN cache
        /\ PendingFor(getNamespacedKey(DefaultNamespace, k)) = 0
        /\ other \in DOMAIN latest /\ latest[other].live
        /\ getNamespacedKey(DefaultNamespace, other) \in DOMAIN cache
        /\ PendingFor(getNamespacedKey(DefaultNamespace, other)) = 1
        /\ now < latest[other].deadline

-----------------------------------------------------------------------------
(* The lifecycle events of the transport and the handlers RedisCache       *)
(* registers for them: src/src/lib/cache/redis.ts.  call records the last  *)
(* handler the transport has called.                                       *)

LifecycleEvents == {"connect", "error", "end"}

\* this.isConnected after the handler of the event has run: the handler of
\* 'error' logs the error and assigns nothing
RedisCache_on(event, connected) ==
    CASE event = "connect" -> TRUE
      [] event = "end" -> FALSE
      [] event = "error" -> connected

\* the transport emits an event
LifecycleEvent(event) ==
    /\ backend = "redis"
    /\ ~MicrotaskPending
    /\ isConnected' = RedisCache_on(event, isConnected)
    /\ call' = [fn |-> "on", event |-> event]
    /\ quits' = IF event = "connect" THEN NoQuits ELSE quits
    /\ proc' = IF event = "connect"
               THEN [p \in Procs |-> [proc[p] EXCEPT !.down = FALSE]]
               ELSE proc
    /\ UNCHANGED <<overlaps, now, backend, cfgTtl, cache, timers, redisStore,
                   customStore, latest, seen>>

\* set and has, each call awaited before the next begins, and the events
NextRedisLife ==
    \/ AllIdle /\ \E p \in Procs, key \in RedisKeys, ttl \in RedisTTLs :
                    RedisSetCall(p, key, ttl)
    \/ \E p \in Procs, replied \in BOOLEAN : RedisSetResume(p, replied)
    \/ AllIdle /\ \E p \in Procs, key \in RedisKeys : RedisHasCall(p, key)
    \/ \E p \in Procs, replied \in BOOLEAN : RedisHasResume(p, replied)
    \/ \E p \in Procs : Return(p)
    \/ \E event \in LifecycleEvents : LifecycleEvent(event)
    \/ Tick

SpecRedisLife == InitRedis /\ [][NextRedisLife]_vars

\* C31: after a 'connect' event the networked cache takes the connection to be
\* up; after an 'error' or an 'end' event it takes it to be down, and a has
\* called before the next 'connect' returns false and sends no EXISTS.
C31_StatusFollowsEvents ==
    [][/\ (call'.fn = "on" /\ call'.event = "connect") => isConnected'
       /\ (call'.fn = "on" /\ call'.event \in {"error", "end"}) => ~isConnected'
       /\ \A p \in Procs :
             (/\ call.fn = "on" /\ call.event \in {"error", "end"}
              /\ Idle(p) /\ proc'[p].op = "has")
             => /\ proc'[p].pc = "done" /\ proc'[p].ret = "false"
                /\ ~proc'[p].io
      ]_vars

-----------------------------------------------------------------------------
(* The life of an entry of the in-process cache, under the calls of        *)
(* SpecMem.  The clock of the model stops at MaxTime, so a set is taken    *)
(* only when its deadline is within reach.                                 *)

NextMemLive ==
    \/ \E p \in Procs, key \in Keys, ttl \in MemTTLs :
          now + ttl <= MaxTime /\ MemSetCall(p, key, ttl)
    \/ \E p \in Procs : MemSetResume(p)
    \/ \E p \in Procs, key \in Keys : MemHasCall(p, key)
    \/ \E p \in Procs, key \in Keys : MemDeleteCall(p, key)
    \/ \E p \in Procs : MemClearCall(p)
    \/ \E p \in Procs : Return(p)
    \/ TimerFire
    \/ Tick

\* the timers a set of NextMemLive can schedule
PossibleTimers ==
    {[key |-> getNamespacedKey(DefaultNamespace, k), fireAt |-> t] :
        k \in Keys, t \in 0..MaxTime}

\* the step of Tick, whether or not continuations are waiting
ClockAdvances ==
    /\ now < MaxTime
    /\ now' = now + 1
    /\ UNCHANGED <<call, overlaps, quits, backend, cfgTtl, cache, timers, isConnected,
                   redisStore, customStore, proc, latest, seen>>

\* the step of TimerFires for a timer that is pending and due, whether or not
\* continuations are waiting
TimerRuns(timer) ==
    /\ BagIn(timer, timers)
    /\ timer.fireAt <= now
    /\ LET M == EvictionCallback(Mem, timer)
       IN cache' = M.cache /\ timers' = M.timers
    /\ UNCHANGED <<call, overlaps, quits, now, backend, cfgTtl, isConnected, redisStore,
                   customStore, proc, latest, seen>>

\* Time passes, and the event loop comes to every timer that stays pending and
\* due: the callers do not keep it busy with continuations for ever.
SpecMemLive ==
    /\ InitMem
    /\ [][NextMemLive]_vars
    /\ WF_vars(ClockAdvances)
    /\ \A timer \in PossibleTimers : WF_vars(TimerRuns(timer))

\* C32: provided that the timers that are scheduled fire, an entry that set
\* has put into the store of the in-process cache leaves it again, and its key
\* is absent again: no entry is in the store for ever.  At every instant, each
\* key is absent then or at a later instant.
C32_EntryLeaves ==
    \A k \in Keys : []<>(getNamespacedKey(DefaultNamespace, k) \notin DOMAIN cache)

\* the entry of the last set of a key is gone from the store, its deadline
\* reached, and no timer is pending
C32_Witness ==
    \E k \in Keys :
        /\ k \in DOMAIN latest /\ latest[k].live /\ latest[k].deadline <= now
        /\ getNamespacedKey(DefaultNamespace, k) \notin DOMAIN cache
        /\ timers = EmptyBag /\ AllIdle

-----------------------------------------------------------------------------
(* The hasher called on two payloads that hold a Date at the same place *)

Instants == 0..3

DatePlaces ==
    {"payload", "field", "element", "field of field", "element of field",
     "field of element", "element of element", "field beside a number"}

\* the payload that holds x at the place
Place(place, x) ==
    CASE place = "payload" -> x
      [] place = "field" -> Obj(<<<<"a", x>>>>)
      [] place = "element" -> Arr(<<x>>)
      [] place = "field of field" -> Obj(<<<<"a", Obj(<<<<"b", x>>>>)>>>>)
      [] place = "element of field" -> Obj(<<<<"a", Arr(<<x>>)>>>>)
      [] place = "field of element" -> Arr(<<Obj(<<<<"a", x>>>>)>>)
      [] place = "element of element" -> Arr(<<Arr(<<x>>)>>)
      [] place = "field beside a number" -> Obj(<<<<"a", Num(1)>>, <<"b", x>>>>)

InitDate ==
    /\ NoSystem
    /\ \E place \in DatePlaces, da \in Instants, db \in Instants :
         call = [fn |-> "hashJson", place |-> place, da |-> da, db |-> db,
                 a |-> Place(place, DateV(da)), b |-> Place(place, DateV(db)),
                 done |-> FALSE, ha |-> Throw("none"), hb |-> Throw("none")]

SpecDate == InitDate /\ [][NextHash]_vars

\* C33: a Date in a structured payload, be it the payload itself, a field of
\* an object or an element of an array, at any depth, is replaced by its
\* ISO-8601 string in the canonical form, and two payloads that differ only in
\* such a Date have different hashes.
C33_DatesCanonical ==
    (call.fn = "hashJson" /\ call.done)
    => /\ normalizeObject(call.a) = Place(call.place, Str(toISOString(call.da)))
       /\ call.ha.ok /\ call.hb.ok
       /\ call.da # call.db => call.ha.v # call.hb.v

-----------------------------------------------------------------------------
(* A further claim about processIfNotDuplicate, under SpecSeq *)

-----------------------------------------------------------------------------
(* normalizeMessage and the cache key of two values given as messages:     *)
(* src/unnamed/part_003                                                    *)

\* objects that have a payload property, with and without further properties
WithPayload ==
    {Obj(<<<<"payload", p>>>> \o i \o f \o k) :
        p \in {Num(1), Num(2), Undef},
        i \in {<<>>, <<<<"id", Num(1)>>>>, <<<<"id", Num(2)>>>>},
        f \in KeyFormats,
        k \in {<<>>, <<<<"deduplicationKey", Str(<<"k">>)>>>>,
               <<<<"deduplicationKey", Str(<<"j">>)>>>>}}

\* values that have none
WithoutPayload ==
    {Undef, Null, Num(1), Str(<<"payload">>), Arr(<<Num(1)>>),
     Obj(<<<<"a", Num(1)>>>>), Obj(<<<<"id", Num(1)>>, <<"format", Str(<<"protobuf">>)>>>>)}

InitEnvelope ==
    /\ NoSystem
    /\ \E a \in WithPayload \cup WithoutPayload, b \in WithPayload \cup WithoutPayload :
         call = [fn |-> "normalizeMessage", a |-> a, b |-> b, done |-> FALSE,
                 na |-> Undef, nb |-> Undef,
                 ka |-> Throw("none"), kb |-> Throw("none")]

\* normalizeMessage, and getCacheKey of its result, for a and for b
NormalizeMessageCall ==
    /\ call.fn = "normalizeMessage" /\ ~call.done
    /\ LET na == normalizeMessage(call.a)
           nb == normalizeMessage(call.b)
       IN call' = [call EXCEPT !.done = TRUE, !.na = na, !.nb = nb,
                               !.ka = getCacheKey(DefaultNamespace, na),
                               !.kb = getCacheKey(DefaultNamespace, nb)]
    /\ UNCHANGED <<now, backend, cfgTtl, cache, timers, isConnected, redisStore,
                   customStore, proc, latest, seen, overlaps, quits>>

NextEnvelope == NormalizeMessageCall

SpecEnvelope == InitEnvelope /\ [][NextEnvelope]_vars

\* x is an object, not null, that has a payload property
Enveloped(x) == x.t = "obj" /\ \E i \in 1..Len(x.v) : x.v[i][1] = "payload"

-----------------------------------------------------------------------------
(* The wire keys of the networked cache: a set under one key, then a has   *)
(* or a delete under a second key, every command acknowledged.             *)
(* src/src/lib/cache/redis.ts                                              *)

\* non-empty keys, with and without colons
ColonKeys ==
    {<<"a">>, <<"b">>, <<":", "a">>, <<"a", ":">>, <<"a", ":", ":">>,
     <<"a", ":", "b">>, <<"a", ":", ":", "b">>}

InitWireKey ==
    /\ NoSystem
    /\ \E stored \in ColonKeys, other \in ColonKeys, op \in {"has", "delete"} :
         call = [fn |-> "wireKey", stored |-> stored, other |-> other, op |-> op,
                 step |-> "set", done |-> FALSE, ret |-> FALSE]

\* await set(stored, one second)
WireKeySet ==
    /\ call.fn = "wireKey" /\ call.step = "set"
    /\ RedisCache_set_begin(isConnected, call.stored, TicksPerSecond).io
    /\ redisStore' = RedisCache_set_finish(redisStore, call.stored, TicksPerSecond,
                                           TRUE, now).S
    /\ call' = [call EXCEPT !.step = call.op]
    /\ UNCHANGED <<now, backend, cfgTtl, cache, timers, isConnected,
                   customStore, proc, latest, seen, overlaps, quits>>

\* await has(other)
WireKeyHas ==
    /\ call.fn = "wireKey" /\ call.step = "has"
    /\ RedisCache_has_begin(isConnected, call.other).io
    /\ call' = [call EXCEPT !.step = "end", !.done = TRUE,
                            !.ret = RedisCache_has_finish(redisStore, call.other,
                                                          TRUE, now)]
    /\ UNCHANGED <<now, backend, cfgTtl, cache, timers, isConnected, redisStore,
                   customStore, proc, latest, seen, overlaps, quits>>

\* await delete(other)
WireKeyDelete ==
    /\ call.fn = "wireKey" /\ call.step = "delete"
    /\ RedisCache_delete_begin(isConnected, call.other).io
    /\ redisStore' = RedisCache_delete_finish(redisStore, call.other, TRUE).S
    /\ call' = [call EXCEPT !.step = "look"]
    /\ UNCHANGED <<now, backend, cfgTtl, cache, timers, isConnected,
                   customStore, proc, latest, seen, overlaps, quits>>

\* await has(stored), after the delete
WireKeyLook ==
    /\ call.fn = "wireKey" /\ call.step = "look"
    /\ RedisCache_has_begin(isConnected, call.stored).io
    /\ call' = [call EXCEPT !.step = "end", !.done = TRUE,
                            !.ret = RedisCache_has_finish(redisStore, call.stored,
                                                          TRUE, now)]
    /\ UNCHANGED <<now, backend, cfgTtl, cache, timers, isConnected, redisStore,
                   customStore, proc, latest, seen, overlaps, quits>>

NextWireKey ==
    \/ WireKeySet
    \/ WireKeyHas
    \/ WireKeyDelete
    \/ WireKeyLook

SpecWireKey == InitWireKey /\ [][NextWireKey]_vars

\* C36: two different non-empty keys have different wire keys, so after a set
\* under one key a has under a different key finds no entry, and a delete
\* under a different key leaves the entry in place.
C36_WireKeysDistinct ==
    (call.fn = "wireKey" /\ call.done /\ call.stored # call.other)
    => /\ getKey(call.stored).v # getKey(call.other).v
       /\ call.op = "has" => ~call.ret
       /\ call.op = "delete" => call.ret

====
